---- MODULE Spec2Model ----
(***************************************************************************)
(* ASTU Route AI: the LangGraph workflow (app/graph/workflow.py) with its  *)
(* six nodes and two branch functions, the per-request context they patch  *)
(* (app/graph/state.py) and the events of the streaming driver.            *)
(*                                                                         *)
(* Conventions.  A Python str built by formatting is a sequence of tokens  *)
(* (the empty str is << >>); labels the code compares (intent, urgency,    *)
(* node names) are TLA+ strings.  A context is a function whose DOMAIN is  *)
(* the set of keys present in it, so a missing key and a default are kept  *)
(* apart.  Python's None is the empty value << >>: every test the code     *)
(* makes of a value that may be None is a truth test, which None, the      *)
(* empty list and the empty str answer alike.                              *)
(***************************************************************************)
EXTENDS Integers, Sequences, FiniteSets, TLC

VARIABLES
    ctx,          \* the graph state (channel values) of the current run
    pc,           \* the node or branch function that runs next, or "done"
    trace,        \* the nodes executed so far, in order
    failed,       \* the nodes whose internal step raised in this run
    exec_mode,    \* "batch" (execute) or "stream" (stream_execute)
    events,       \* events yielded by stream_execute so far
    gen_calls,    \* number of generation calls made by rag_generator
    gen_out,      \* the generation service's reply to this run's prompt
                  \* (rag_generator receives it only if it makes the call)
    kb_rows,      \* the rows of the knowledge base that match the query
    geo_out,      \* the last patch returned by geo_reasoning, or None
    composer_in,  \* the context response_composer consumed, or None
    composer_out, \* what response_composer returned or raised, or None
    eng,          \* one call of the routing engine or of the POI resolver made
                  \* on its own: operation, arguments and result, or None
    sse,          \* the server-sent messages the streaming endpoint has
                  \* written to its caller so far
    proc,         \* the process and its walking-network graph: the OSMService
                  \* instances made so far and the loads performed, or None
    result        \* what execute returned to its caller, or None

vars == <<ctx, pc, trace, failed, exec_mode, events, gen_calls, gen_out,
          kb_rows, geo_out, composer_in, composer_out, eng, sse, proc, result>>

-----------------------------------------------------------------------------
(* Bounds of the model *)

\* largest number of documents a retrieval returns in the model
MaxDocs == 2
\* largest number of services a nearby lookup returns in the model
MaxServices == 2

-----------------------------------------------------------------------------
(* Python values *)

None == << >>

\* dict.get(key, default)
Get(state, key, default) == IF key \in DOMAIN state THEN state[key] ELSE default

\* dict.get(key)
GetOrNone(state, key) == Get(state, key, None)

\* truth value of a str or list
Truthy(v) == v # << >>

\* str.strip() on a text whose only whitespace tokens are the newline tokens
RECURSIVE Strip(_)
Strip(text) ==
    IF text = << >> THEN << >>
    ELSE IF text[Len(text)] \in {"\n", "\n\n"}
         THEN Strip(SubSeq(text, 1, Len(text) - 1))
         ELSE text

-----------------------------------------------------------------------------
(* The context schema *)

Intents == {"NAVIGATION", "NEARBY_SERVICE", "UNIVERSITY_INFO", "MIXED"}

\* the keys declared by GraphState: the channels of the compiled graph
GraphStateKeys ==
    {"user_query", "latitude", "longitude", "mode", "urgency",
     "intent", "confidence",
     "retrieved_documents", "rag_answer", "rag_sources", "rag_confidence",
     "route_summary", "distance_estimate", "route_steps", "geo_reasoning",
     "geo_confidence", "start_coordinates", "end_coordinates",
     "nearby_services", "service_category",
     "final_answer", "reasoning_stream", "sources_used",
     "error"}

\* StateGraph(GraphState): a node's patch is written channel by channel; a key
\* of the patch that is no channel of the schema is not written
Merge(state, patch) ==
    [k \in DOMAIN state \cup (DOMAIN patch \cap GraphStateKeys) |->
        IF k \in DOMAIN patch THEN patch[k] ELSE state[k]]

\* the update of a node as the "updates" stream reports it
StateUpdate(patch) == [k \in DOMAIN patch \cap GraphStateKeys |-> patch[k]]

-----------------------------------------------------------------------------
(* Requests and the outcomes of external calls *)

\* latitude and longitude are in units of 0.0001 degree; 0 stands for a
\* request without the coordinate (None and 0.0 are both false in Python)
DefaultLat == 85569
DefaultLon == 392911

Queries == {"from library to lab", "where is block 8?", "find a cafe",
            "library hours"}
Latitudes == {0, 85600}
Longitudes == {0, 392900}
Urgencies == {"normal", "exam", "accessibility"}

\* ai_query / ai_query_stream: the input handed to the graph
Requests ==
    {[user_query |-> q, latitude |-> la, longitude |-> lo,
      mode |-> "walking", urgency |-> u] :
        q \in Queries, la \in Latitudes, lo \in Longitudes, u \in Urgencies}

\* str(e) of an exception raised by an external call
ErrTexts == {<< >>, <<"deadline exceeded">>}

Raised(msg) == [raised |-> TRUE, msg |-> msg]
Returned(value) == [raised |-> FALSE, value |-> value]

\* what a chat model call gives: an exception, or a content (taken after
\* strip() and the removal of a markdown fence) that is JSON or is not
LlmContents(objs) ==
    {[json |-> TRUE, obj |-> o] : o \in objs}
    \cup {[json |-> FALSE, obj |-> << >>]}

LlmOutcomes(objs) ==
    {Raised(m) : m \in ErrTexts} \cup {Returned(c) : c \in LlmContents(objs)}

\* json.loads(content)
JsonLoads(content) ==
    IF content.json
    THEN Returned(content.obj)
    ELSE Raised(<<"Expecting value: line 1 column 1 (char 0)">>)

-----------------------------------------------------------------------------
(* Node 1: user_input *)

user_input_node(state) ==
    LET updates == [mode |-> Get(state, "mode", "walking"),
                    urgency |-> Get(state, "urgency", "normal"),
                    reasoning_stream |-> <<<<"Understanding your question...">>>>]
    IN
    IF Get(state, "latitude", 0) # 0 /\ Get(state, "longitude", 0) # 0
    THEN updates
    ELSE Merge(updates, [latitude |-> DefaultLat, longitude |-> DefaultLon])

-----------------------------------------------------------------------------
(* Node 2: intent_classifier *)

\* the objects a classification call may return
ClassifierObjs ==
    {[intent |-> l] : l \in Intents \cup {"DIRECTIONS"}} \cup {<< >>}

\* a model without the Literal constraint: any label is accepted
IntentClassificationAnyLabel(obj) ==
    IF "intent" \in DOMAIN obj
    THEN Returned(obj.intent)
    ELSE Raised(<<"1 validation error for IntentClassification">>)

\* IntentClassification(**result)
IntentClassification(obj) ==
    IF "intent" \in DOMAIN obj /\ obj.intent \in Intents
    THEN Returned(obj.intent)
    ELSE Raised(<<"1 validation error for IntentClassification">>)

\* the lines the if/elif chain appends to the reasoning stream
IntentReasoning(intent) ==
    CASE intent = "NAVIGATION" ->
            <<<<"Detected navigation request inside ASTU campus">>>>
      [] intent = "NEARBY_SERVICE" ->
            <<<<"Detected nearby service discovery request">>>>
      [] intent = "UNIVERSITY_INFO" ->
            <<<<"Searching ASTU knowledge base">>>>
      [] intent = "MIXED" ->
            <<<<"Detected combined navigation and information request">>>>
      [] OTHER -> << >>

\* the result of the try block: the classified intent, or the exception
ClassifyTry(llm) ==
    IF llm.raised THEN llm
    ELSE LET parsed == JsonLoads(llm.value)
         IN  IF parsed.raised THEN parsed
             ELSE IntentClassification(parsed.value)

intent_classifier_node_fresh(state, llm) ==
    LET r == ClassifyTry(llm)
    IN  IF r.raised
        THEN [intent |-> "UNIVERSITY_INFO",
              confidence |-> <<"low">>,
              error |-> r.msg]
        ELSE [intent |-> r.value,
              confidence |-> <<"high">>,
              reasoning_stream |-> IntentReasoning(r.value)]

intent_classifier_node(state, llm) ==
    LET r == ClassifyTry(llm)
    IN  IF r.raised
        THEN [intent |-> "UNIVERSITY_INFO",
              confidence |-> <<"low">>,
              error |-> r.msg]
        ELSE [intent |-> r.value,
              confidence |-> <<"high">>,
              reasoning_stream |->
                  Get(state, "reasoning_stream", << >>)
                      \o IntentReasoning(r.value)]

-----------------------------------------------------------------------------
(* Node 3: routing_decision, and the branch after rag_generator *)

routing_decision_node(state) ==
    LET intent == Get(state, "intent", "UNIVERSITY_INFO")
    IN  CASE intent = "NAVIGATION" -> "geo"
          [] intent = "NEARBY_SERVICE" -> "geo"
          [] intent = "UNIVERSITY_INFO" -> "rag"
          [] intent = "MIXED" -> "both"
          [] OTHER -> "rag"

\* add_conditional_edges("intent_classifier", routing_decision_node, {...})
RoutingTarget(decision) ==
    CASE decision = "geo" -> "geo_reasoning"
      [] decision = "rag" -> "rag_retriever"
      [] decision = "both" -> "rag_retriever"

\* a branch that never continues to geo_reasoning
AfterGeneratorAlwaysCompose(state) == "compose"

\* the lambda of add_conditional_edges("rag_generator", ...)
AfterGenerator(state) ==
    IF Get(state, "intent", "") = "MIXED" THEN "geo" ELSE "compose"

AfterGeneratorTarget(decision) ==
    CASE decision = "geo" -> "geo_reasoning"
      [] decision = "compose" -> "response_composer"

-----------------------------------------------------------------------------
(* Node 4: rag_retriever *)

\* the methods VectorSearchService defines
VectorSearchServiceMethods == {"search_documents", "search_pois"}

\* the rows a document search could give: up to MaxDocs contents
DocContents == {<<"ASTU registrar office hours">>}
SearchResults ==
    UNION {[1..n -> [content : DocContents]] : n \in 0..MaxDocs}

\* vector_service.search(query=..., top_k=5, threshold=0.7) on the service the
\* container builds: the attribute lookup fails before any row is fetched
VectorServiceSearch(rows) ==
    IF "search" \in VectorSearchServiceMethods
    THEN Returned(rows)
    ELSE Raised(<<"'VectorSearchService' object has no attribute 'search'">>)

\* f"source_{idx}", idx counted from 1
FormatDocuments(results) ==
    [i \in 1..Len(results) |->
        [source_id |-> "source_" \o ToString(i),
         content |-> results[i].content]]

rag_retriever_node(state, search) ==
    IF search.raised
    THEN [retrieved_documents |-> << >>,
          error |-> <<"Retrieval failed: ">> \o search.msg]
    ELSE IF search.value = << >>
    THEN [retrieved_documents |-> << >>,
          reasoning_stream |->
              Get(state, "reasoning_stream", << >>)
                  \o <<<<"No verified information found">>>>]
    ELSE [retrieved_documents |-> FormatDocuments(search.value),
          reasoning_stream |->
              Append(Get(state, "reasoning_stream", << >>),
                     <<"Found ", ToString(Len(search.value)),
                       " relevant ASTU documents">>)]

-----------------------------------------------------------------------------
(* Node 5: rag_generator *)

RAG_NO_ANSWER ==
    [answer |-> <<"I don't have enough verified ASTU information to answer this accurately.">>,
     sources_used |-> << >>,
     confidence |-> <<"low">>]

\* the objects a generation call may return: schema-valid ones, one without
\* its sources and confidence, one with a confidence outside the schema
GeneratorObjs ==
    {[answer |-> <<"Grounded answer">>, sources_used |-> <<"source_1">>,
      confidence |-> c] : c \in {"high", "low"}}
    \cup {[answer |-> <<"Partial answer">>]}
    \cup {[answer |-> <<"Unsure answer">>, sources_used |-> << >>,
           confidence |-> "certain"]}

\* a model whose sources_used and confidence are optional and unconstrained
RAGResponseLenient(obj) ==
    IF "answer" \in DOMAIN obj
    THEN Returned([answer |-> obj.answer,
                   sources_used |-> Get(obj, "sources_used", << >>),
                   confidence |-> Get(obj, "confidence", "low")])
    ELSE Raised(<<"validation error for RAGResponse">>)

\* RAGResponse(**result)
RAGResponse(obj) ==
    IF /\ {"answer", "sources_used", "confidence"} \subseteq DOMAIN obj
       /\ obj.confidence \in {"high", "medium", "low"}
    THEN Returned(obj)
    ELSE Raised(<<"validation error for RAGResponse">>)

\* the result of the try block: the validated response, or the exception
GenerateTry(llm) ==
    IF llm.raised THEN llm
    ELSE LET parsed == JsonLoads(llm.value)
         IN  IF parsed.raised THEN parsed ELSE RAGResponse(parsed.value)

\* a node without the early return on an empty document list
GeneratorCallsModelAlways(state) == TRUE

\* whether the node reaches llm.ainvoke
GeneratorCallsModel(state) ==
    Truthy(Get(state, "retrieved_documents", << >>))

rag_generator_node(state, llm) ==
    IF ~GeneratorCallsModel(state)
    THEN [rag_answer |-> RAG_NO_ANSWER.answer,
          rag_sources |-> RAG_NO_ANSWER.sources_used,
          rag_confidence |-> RAG_NO_ANSWER.confidence,
          reasoning_stream |->
              Get(state, "reasoning_stream", << >>)
                  \o <<<<"Unable to provide verified answer">>>>]
    ELSE LET r == GenerateTry(llm)
         IN  IF r.raised
             THEN [rag_answer |-> RAG_NO_ANSWER.answer,
                   rag_sources |-> RAG_NO_ANSWER.sources_used,
                   rag_confidence |-> <<"low">>,
                   error |-> <<"Generation failed: ">> \o r.msg]
             ELSE [rag_answer |-> r.value.answer,
                   rag_sources |-> r.value.sources_used,
                   rag_confidence |-> <<r.value.confidence>>,
                   reasoning_stream |->
                       Append(Get(state, "reasoning_stream", << >>),
                              <<"Generated answer from verified ASTU sources">>)]

-----------------------------------------------------------------------------
(* Points of interest and the geometry helpers of geo_helpers.py *)

POIs ==
    {[id |-> 1, name |-> "Library", category |-> "library",
      latitude |-> 85610, longitude |-> 392913],
     [id |-> 2, name |-> "Computer Lab", category |-> "lab",
      latitude |-> 85580, longitude |-> 392930]}

Abs(n) == IF n < 0 THEN -n ELSE n

\* Newton's iteration for the integer square root of n > 0, from x >= root
RECURSIVE NewtonSqrt(_, _)
NewtonSqrt(n, x) ==
    LET y == (x + n \div x) \div 2
    IN  IF y >= x THEN x ELSE NewtonSqrt(n, y)

\* integer square root
ISqrt(n) == IF n = 0 THEN 0 ELSE NewtonSqrt(n, n)

\* a / b rounded to the nearest integer
RoundDiv(a, b) == (2 * a + b) \div (2 * b)

\* haversine_distance, in metres: over the few hundred metres of the campus
\* the great circle is the straight line, 0.0001 degree being 11 m
haversine_distance(lat1, lon1, lat2, lon2) ==
    11 * ISqrt((lat2 - lat1) * (lat2 - lat1) + (lon2 - lon1) * (lon2 - lon1))

\* bearing_to_direction(calculate_bearing(...)): the compass octant of the
\* displacement, the octants meeting at tan(22.5 deg) = 0.414
Direction(lat1, lon1, lat2, lon2) ==
    LET dy == lat2 - lat1
        dx == lon2 - lon1
        ns == IF dy >= 0 THEN "north" ELSE "south"
        ew == IF dx >= 0 THEN "east" ELSE "west"
    IN  IF 1000 * Abs(dx) < 414 * Abs(dy) \/ (dx = 0 /\ dy = 0) THEN ns
        ELSE IF 1000 * Abs(dy) < 414 * Abs(dx) THEN ew
        ELSE ns \o ew

\* f"{km:.2f}" of a distance given in hundredths of a kilometre
Fmt2(centi) ==
    ToString(centi \div 100) \o "."
        \o ToString((centi % 100) \div 10) \o ToString(centi % 10)

\* what vector_service.search_pois(name, limit=1) may give
SearchPoisOutcomes ==
    {Raised(<<"POI search failed: ">> \o m) : m \in ErrTexts}
    \cup {Returned(<< >>)} \cup {Returned(<<p>>) : p \in POIs}

\* what vector_service.search_pois("campus location", limit=50) may give
CampusPoisOutcomes ==
    {Raised(<<"POI search failed: ">>), Returned(<< >>)}
    \cup {Returned(<<p>>) : p \in POIs}
    \cup {Returned(<<x[1], x[2]>>) : x \in {y \in POIs \X POIs : y[1] # y[2]}}

\* min(all_pois, key=distance): the first of the nearest candidates
RECURSIVE NearestOf(_, _, _)
NearestOf(pois, lat, lon) ==
    IF Len(pois) = 1 THEN pois[1]
    ELSE LET rest == NearestOf(Tail(pois), lat, lon)
             d(p) == haversine_distance(lat, lon, p.latitude, p.longitude)
         IN  IF d(pois[1]) <= d(rest) THEN pois[1] ELSE rest

find_nearest_poi(campus, lat, lon) ==
    IF campus.raised \/ campus.value = << >>
    THEN None
    ELSE NearestOf(campus.value, lat, lon)

\* a query as the list of its words, in lower case (the patterns ignore
\* case) and without the closing "?" or "."
QueryWords(query) ==
    CASE query = "from library to lab" -> <<"from", "library", "to", "lab">>
      [] query = "from block 8 to library" ->
             <<"from", "block", "8", "to", "library">>
      [] query = "where is block 8?" -> <<"where", "is", "block", "8">>
      [] query = "find a cafe" -> <<"find", "a", "cafe">>
      [] query = "library hours" -> <<"library", "hours">>
      [] OTHER -> << >>

Least(S) == CHOOSE i \in S : \A j \in S : i <= j

\* pattern 1, from\s+(.+?)\s+to\s+(.+?)(?:\?|$|\.): the names between the
\* leftmost "from" and the first "to" that leaves it a name, and after that
\* "to"; << >> when the pattern does not match
FromToMatch(words) ==
    LET Tos(i) == {j \in (i + 2)..(Len(words) - 1) : words[j] = "to"}
        froms == {i \in 1..Len(words) : words[i] = "from" /\ Tos(i) # {}}
    IN  IF froms = {} THEN << >>
        ELSE LET i == Least(froms)
                 j == Least(Tos(i))
             IN  <<SubSeq(words, i + 1, j - 1),
                   SubSeq(words, j + 1, Len(words))>>

\* the last word of the trigger (to | where is | find | get to | locate) that
\* starts or, for "get to", ends at word k, 0 when there is none
TriggerEnd(words, k) ==
    IF words[k] \in {"to", "find", "locate"} THEN k
    ELSE IF words[k] = "where" /\ k < Len(words) /\ words[k + 1] = "is"
    THEN k + 1
    ELSE 0

\* pattern 2, (?:to|where\s+is|find|get\s+to|locate)\s+(?:the\s+)?(.+?)
\* (?:\?|$|\.): the name after the leftmost trigger, a leading "the"
\* dropped; << >> when the pattern does not match.  The second pattern of
\* to_patterns (direction to | navigate to | go to) matches only where this
\* one does
ToMatch(words) ==
    LET starts == {k \in 1..Len(words) :
                      TriggerEnd(words, k) # 0 /\ TriggerEnd(words, k) < Len(words)}
    IN  IF starts = {} THEN << >>
        ELSE LET e == TriggerEnd(words, Least(starts))
                 rest == SubSeq(words, e + 1, Len(words))
             IN  IF rest[1] = "the" /\ Len(rest) > 1 THEN <<Tail(rest)>>
                 ELSE <<rest>>

ExtractPlanToFirst(words) ==
    IF ToMatch(words) # << >>
    THEN [shape |-> "to", names |-> ToMatch(words)]
    ELSE IF FromToMatch(words) # << >>
    THEN [shape |-> "from_to", names |-> FromToMatch(words)]
    ELSE [shape |-> "bare", names |-> <<words>>]

\* the pattern extract_locations_from_query handles the query by, and the
\* names it searches for, in call order
ExtractPlan(words) ==
    IF FromToMatch(words) # << >>
    THEN [shape |-> "from_to", names |-> FromToMatch(words)]
    ELSE IF ToMatch(words) # << >>
    THEN [shape |-> "to", names |-> ToMatch(words)]
    ELSE [shape |-> "bare", names |-> <<words>>]

\* the text shape of a query: the first of the three patterns that matches
QueryShape(query) == ExtractPlan(QueryWords(query)).shape

First(results) == IF results = << >> THEN None ELSE results[1]

\* extract_locations_from_query for a query given as its words:
\* Returned(<<start_poi, end_poi>>), or the exception of a search.  env.s1,
\* env.s2 are the outcomes of the searches in call order, env.campus1 that
\* of the search inside find_nearest_poi
LocationsFromWords(words, env, current_lat, current_lon) ==
    CASE ExtractPlan(words).shape = "from_to" ->
            IF env.s1.raised THEN env.s1
            ELSE IF env.s2.raised THEN env.s2
            ELSE Returned(<<First(env.s1.value), First(env.s2.value)>>)
      [] ExtractPlan(words).shape = "to" ->
            IF env.s1.raised THEN env.s1
            ELSE LET end_poi == First(env.s1.value)
                 IN  IF current_lat # 0 /\ current_lon # 0 /\ end_poi # None
                     THEN Returned(<<find_nearest_poi(env.campus1, current_lat,
                                                      current_lon), end_poi>>)
                     ELSE Returned(<<None, end_poi>>)
      [] OTHER ->
            IF env.s1.raised THEN env.s1
            ELSE Returned(<<None, First(env.s1.value)>>)

extract_locations_from_query(query, env, current_lat, current_lon) ==
    LocationsFromWords(QueryWords(query), env, current_lat, current_lon)

-----------------------------------------------------------------------------
(* The routing engine as geo_reasoning sees it *)

\* the result dictionary of OSMService.get_route for a path over the given
\* graph nodes of total edge length distance_m metres
OsmRoute(distance_m, nodes) ==
    [distance_meters |-> distance_m,
     distance_centikm |-> RoundDiv(distance_m, 10),
     duration_deciminutes |-> RoundDiv(distance_m * 10, 84),
     route_coords |-> nodes,
     instructions |-> <<<<"Start from your current location">>,
                        <<"Walk straight to your destination">>,
                        <<"You have arrived at your destination">>>>]

GraphNodes == {[lat |-> 85605, lng |-> 392915], [lat |-> 85582, lng |-> 392928]}

\* what routing_service.get_route(...) may give: no route, or a route
GetRouteOutcomes ==
    {None}
    \cup {OsmRoute(0, <<n>>) : n \in GraphNodes}
    \cup {OsmRoute(420, <<x[1], x[2]>>) :
             x \in {y \in GraphNodes \X GraphNodes : y[1] # y[2]}}

\* what routing_service.find_nearby_services(...) may give: an exception, or
\* the services in range, nearest first (distance in hundredths of a km)
Services ==
    {[name |-> "Campus Cafe", distance_km |-> 30],
     [name |-> "Corner Cafe", distance_km |-> 120]}
ServiceLists ==
    {l \in UNION {[1..n -> Services] : n \in 0..MaxServices} :
        \A i \in 1..(Len(l) - 1) : l[i].distance_km < l[i + 1].distance_km}
NearbyOutcomes ==
    {Raised(<<"Service search failed: ">> \o m) : m \in ErrTexts}
    \cup {Returned(l) : l \in ServiceLists}

-----------------------------------------------------------------------------
(* Node 6: geo_reasoning *)

\* str() of a float given in hundredths: "0.3", "1.25", "1.0"
FloatStr(centi) ==
    ToString(centi \div 100) \o "."
        \o ToString((centi % 100) \div 10)
        \o (IF centi % 10 = 0 THEN "" ELSE ToString(centi % 10))

\* the category the synonym table finds in the query, "service" if none
QueryCategory(query) ==
    IF query = "find a cafe" THEN "cafe" ELSE "service"

\* services[:n]
Take(list, n) == SubSeq(list, 1, IF Len(list) < n THEN Len(list) ELSE n)

_handle_nearby_service(state, nearby) ==
    IF nearby.raised
    THEN [error |-> <<"Nearby service search failed: ">> \o nearby.msg,
          geo_confidence |-> <<"low">>]
    ELSE
    LET category == QueryCategory(state.user_query)
        services == nearby.value
        summary ==
            IF services # << >>
            THEN <<"Found ", ToString(Len(services)), " ", category,
                   "(s) near ASTU">>
            ELSE <<"No ", category, "(s) found within 5km of ASTU">>
        steps ==
            IF services # << >>
            THEN [i \in 1..Len(Take(services, 5)) |->
                     <<ToString(i), ". ", services[i].name, " - ",
                       FloatStr(services[i].distance_km), "km away">>]
            ELSE <<<<"Try searching with a different category or larger radius">>>>
    IN  [nearby_services |-> services,
         service_category |-> category,
         route_summary |-> summary,
         route_steps |-> steps,
         geo_reasoning |-> <<<<"Used ASTU location as reference point">>>>,
         geo_confidence |-> IF services # << >> THEN <<"high">> ELSE <<"low">>,
         reasoning_stream |->
             Get(state, "reasoning_stream", << >>)
                 \o <<<<"Searched for nearby ", category, "(s)">>, summary>>]

\* an except block that reports the failure in the route fields only
NavigationFailureNoError(msg) ==
    [route_summary |-> <<"Unable to calculate route">>,
     route_steps |-> <<msg>>,
     geo_reasoning |-> <<<<"Error: ">> \o msg>>,
     geo_confidence |-> <<"low">>]

\* the except block of _handle_navigation
NavigationFailure(msg) ==
    [route_summary |-> <<"Unable to calculate route">>,
     route_steps |-> <<msg>>,
     geo_reasoning |-> <<<<"Error: ">> \o msg>>,
     geo_confidence |-> <<"low">>,
     error |-> <<"Navigation failed: ">> \o msg]

AdjustForUrgencySwapped(time_minutes, urgency) ==
    LET t == CASE urgency = "exam" -> (time_minutes * 13) \div 10
               [] urgency = "accessibility" -> (time_minutes * 8) \div 10
               [] OTHER -> time_minutes
    IN  IF t < 1 THEN 1 ELSE t

\* the urgency adjustment and the one-minute floor
AdjustForUrgency(time_minutes, urgency) ==
    LET t == CASE urgency = "exam" -> (time_minutes * 8) \div 10
               [] urgency = "accessibility" -> (time_minutes * 13) \div 10
               [] OTHER -> time_minutes
    IN  IF t < 1 THEN 1 ELSE t

\* the route between two resolved places: the return value of the try block
NavigationRoute(state, rs0, start_poi, end_poi, start_line, osm_route) ==
    LET has_coords == osm_route # None /\ osm_route.route_coords # << >>
        rs1 == rs0 \o <<start_line>>
                   \o (IF has_coords
                       THEN <<<<"Using OSM walking route (",
                                ToString(Len(osm_route.route_coords)),
                                " waypoints)">>>>
                       ELSE <<<<"OSM routing unavailable, using straight line">>>>)
        line_m == haversine_distance(start_poi.latitude, start_poi.longitude,
                                     end_poi.latitude, end_poi.longitude)
        distance_centikm ==
            IF osm_route # None THEN osm_route.distance_centikm
            ELSE RoundDiv(line_m, 10)
        distance_meters ==
            IF osm_route # None THEN osm_route.distance_meters ELSE line_m
        below_100m ==
            IF osm_route # None THEN osm_route.distance_centikm < 10
            ELSE line_m < 100
        base_minutes ==
            IF osm_route # None THEN osm_route.duration_deciminutes \div 10
            ELSE (line_m * 60) \div 5000
        urgency == Get(state, "urgency", "normal")
        time_minutes == AdjustForUrgency(base_minutes, urgency)
        rs2 == rs1 \o (CASE urgency = "exam" ->
                                <<<<"Exam mode: Optimized for speed">>>>
                         [] urgency = "accessibility" ->
                                <<<<"Accessibility mode: Easier routes">>>>
                         [] OTHER -> << >>)
        direction == Direction(start_poi.latitude, start_poi.longitude,
                               end_poi.latitude, end_poi.longitude)
        route_steps ==
            IF osm_route # None
            THEN osm_route.instructions
            ELSE IF below_100m
            THEN <<<<end_poi.name, " is very close to ", start_poi.name>>,
                   <<"Walk ", ToString(distance_meters), "m ", direction>>>>
            ELSE <<<<"Start at ", start_poi.name>>,
                   <<"Head ", direction, " for ", ToString(distance_meters), "m">>,
                   <<"Arrive at ", end_poi.name>>>>
        km == Fmt2(distance_centikm)
    IN  IF osm_route # None /\ osm_route.instructions = << >>
        THEN \* the straight-line steps read a direction that was never computed
             NavigationFailure(<<"name 'direction' is not defined">>)
        ELSE
        [route_summary |-> <<"Route from ", start_poi.name, " to ", end_poi.name,
                             ": ", km, "km, ~", ToString(time_minutes),
                             " min walk">>,
         distance_estimate |-> <<km, "km">>,
         route_steps |-> route_steps,
         geo_reasoning |->
             <<<<"Matched start location to: ", start_poi.name>>,
               <<"Matched destination to: ", end_poi.name>>,
               <<"Calculated distance: ", km, "km">>,
               <<"Route type: ", IF osm_route # None THEN "OSM walking path"
                                 ELSE "straight line estimate">>,
               <<"Applied urgency mode: ", urgency>>>>,
         geo_confidence |-> <<"high">>,
         reasoning_stream |->
             rs2 \o <<<<"Distance: ", km, "km">>,
                      <<"Estimated time: ", ToString(time_minutes), " minutes">>>>,
         start_coordinates |-> [lat |-> start_poi.latitude,
                                lon |-> start_poi.longitude,
                                name |-> start_poi.name],
         end_coordinates |-> [lat |-> end_poi.latitude,
                              lon |-> end_poi.longitude,
                              name |-> end_poi.name],
         route_coords |->
             IF has_coords THEN osm_route.route_coords
             ELSE <<[lat |-> start_poi.latitude, lng |-> start_poi.longitude],
                    [lat |-> end_poi.latitude, lng |-> end_poi.longitude]>>]

\* env: the outcomes of the external calls the handler makes, in call order
_handle_navigation(state, env) ==
    LET located == extract_locations_from_query(
                       state.user_query, env,
                       Get(state, "latitude", 0), Get(state, "longitude", 0))
    IN  IF located.raised THEN NavigationFailure(located.msg)
        ELSE
        LET start_found == located.value[1]
            end_poi == located.value[2]
            rs0 == Get(state, "reasoning_stream", << >>)
                       \o <<<<"Extracting locations from query using semantic search...">>>>
        IN  IF end_poi = None
            THEN [route_summary |->
                      <<"Could not identify destination location in query">>,
                  route_steps |->
                      <<<<"Please specify a campus destination (e.g., 'library', 'lab', 'block 8')">>,
                        <<"Try: 'take me to the library' or 'where is the computer lab?'">>>>,
                  geo_reasoning |-> <<<<"No destination POI found in query">>>>,
                  geo_confidence |-> <<"low">>,
                  reasoning_stream |-> rs0 \o <<<<"No destination identified">>>>]
            ELSE
            LET current_lat == Get(state, "latitude", DefaultLat)
                current_lon == Get(state, "longitude", DefaultLon)
                nearest == find_nearest_poi(env.campus2, current_lat, current_lon)
                start_poi ==
                    IF start_found # None THEN start_found
                    ELSE IF nearest # None THEN nearest
                    ELSE [id |-> 0, name |-> "Your Current Location",
                          category |-> "virtual",
                          latitude |-> current_lat, longitude |-> current_lon]
                start_line ==
                    IF start_found # None THEN <<"Start: ", start_poi.name>>
                    ELSE IF nearest # None
                    THEN <<"Start: ", start_poi.name, " (nearest to your location)">>
                    ELSE <<"Start: Your current GPS location">>
            IN  NavigationRoute(
                    state,
                    rs0 \o <<<<"Destination: ", end_poi.name>>>>,
                    start_poi, end_poi, start_line, env.route)

\* the external outcomes a navigation request can meet; a call the query's
\* shape never makes has one outcome
NavigationEnvs(state) ==
    LET shape == QueryShape(state.user_query)
    IN  [s1 : SearchPoisOutcomes,
         s2 : IF shape = "from_to" THEN SearchPoisOutcomes ELSE {Returned(<< >>)},
         campus1 : IF shape = "to" THEN CampusPoisOutcomes ELSE {Returned(<< >>)},
         campus2 : CampusPoisOutcomes,
         route : GetRouteOutcomes]

\* whether the handler's try block raises under env
GeoRaises(state, env) ==
    IF Get(state, "intent", "NAVIGATION") = "NEARBY_SERVICE"
    THEN env.nearby.raised
    ELSE extract_locations_from_query(
             state.user_query, env,
             Get(state, "latitude", 0), Get(state, "longitude", 0)).raised

\* env.nearby is the outcome of find_nearby_services
geo_reasoning_node(state, env) ==
    IF Get(state, "intent", "NAVIGATION") = "NEARBY_SERVICE"
    THEN _handle_nearby_service(state, env.nearby)
    ELSE _handle_navigation(state, env)

GeoEnvs(state) ==
    IF Get(state, "intent", "NAVIGATION") = "NEARBY_SERVICE"
    THEN [nearby : NearbyOutcomes]
    ELSE NavigationEnvs(state)

-----------------------------------------------------------------------------
(* Node 7: response_composer *)

\* "- step\n" for every entry
RECURSIVE Bullets(_)
Bullets(items) ==
    IF items = << >> THEN << >>
    ELSE <<"- ">> \o Head(items) \o <<"\n">> \o Bullets(Tail(items))

_compose_navigation_response(state) ==
    LET summary == Get(state, "route_summary", <<"No route available">>)
        distance == Get(state, "distance_estimate", <<"Unknown distance">>)
        steps == Get(state, "route_steps", << >>)
        reasoning == Get(state, "geo_reasoning", << >>)
    IN  Strip(<<"**">> \o summary \o <<"**", "\n\n">>
              \o <<"**Estimated Distance:** ">> \o distance \o <<"\n\n">>
              \o (IF Truthy(steps)
                  THEN <<"**Route Steps:**", "\n">> \o Bullets(steps)
                  ELSE << >>)
              \o (IF Truthy(reasoning)
                  THEN <<"\n", "**Why this route:**", "\n">> \o Bullets(reasoning)
                  ELSE << >>))

\* "n. **name** - d km away\n" for the first five services
RECURSIVE ServiceLines(_, _)
ServiceLines(services, idx) ==
    IF services = << >> THEN << >>
    ELSE <<ToString(idx), ". **", Head(services).name, "** - ",
           FloatStr(Head(services).distance_km), "km away", "\n">>
         \o ServiceLines(Tail(services), idx + 1)

\* str.title() of a category label
Title(category) ==
    CASE category = "cafe" -> "Cafe"
      [] category = "service" -> "Service"
      [] category = "services" -> "Services"
      [] OTHER -> category

\* a composer that subscripts the category instead of reading it with a default
_compose_nearby_response_subscript(state) ==
    IF "service_category" \notin DOMAIN state
    THEN Raised(<<"'service_category'">>)
    ELSE LET category == state.service_category
             services == Get(state, "nearby_services", << >>)
             summary == Get(state, "route_summary",
                            <<"No ", category, " found nearby">>)
         IN  IF ~Truthy(services) THEN Returned(summary)
             ELSE Returned(Strip(
                      <<"**">> \o summary \o <<"**", "\n\n">>
                      \o <<"**Top ", Title(category), "s near ASTU:**", "\n\n">>
                      \o ServiceLines(Take(services, 5), 1)))

\* a composer that falls back on the knowledge answer when no service is found
_compose_nearby_response_rag_fallback(state) ==
    LET category == Get(state, "service_category", "services")
        services == Get(state, "nearby_services", << >>)
        summary == Get(state, "route_summary",
                       Get(state, "rag_answer",
                           <<"No ", category, " found nearby">>))
    IN  IF ~Truthy(services) THEN Returned(summary)
        ELSE Returned(Strip(
                 <<"**">> \o summary \o <<"**", "\n\n">>
                 \o <<"**Top ", Title(category), "s near ASTU:**", "\n\n">>
                 \o ServiceLines(Take(services, 5), 1)))

\* Returned(text): every read of the context has a default
_compose_nearby_response(state) ==
    LET category == Get(state, "service_category", "services")
        services == Get(state, "nearby_services", << >>)
        summary == Get(state, "route_summary",
                       <<"No ", category, " found nearby">>)
    IN  IF ~Truthy(services) THEN Returned(summary)
        ELSE Returned(Strip(
                 <<"**">> \o summary \o <<"**", "\n\n">>
                 \o <<"**Top ", Title(category), "s near ASTU:**", "\n\n">>
                 \o ServiceLines(Take(services, 5), 1)))

\* the two parts joined with the navigation part first
MixedAnswerGeoFirst(rag_part, geo_part) ==
    geo_part \o <<"\n\n">> \o rag_part

\* f"{rag_part}\n\n{geo_part}"
MixedAnswer(rag_part, geo_part) ==
    rag_part \o <<"\n\n">> \o geo_part

\* the final_answer, sources_used and closing reasoning line for the intent
ComposeByIntent(state, intent) ==
    CASE intent = "NAVIGATION" ->
            [final_answer |-> Returned(_compose_navigation_response(state)),
             sources |-> << >>,
             line |-> <<"Here is your recommended path">>]
      [] intent = "NEARBY_SERVICE" ->
            [final_answer |-> _compose_nearby_response(state),
             sources |-> << >>,
             line |-> <<"Here are the nearby services">>]
      [] intent = "UNIVERSITY_INFO" ->
            [final_answer |->
                 Returned(Get(state, "rag_answer", <<"No information available">>)),
             sources |-> Get(state, "rag_sources", << >>),
             line |-> <<"Answer based on verified ASTU sources">>]
      [] intent = "MIXED" ->
            [final_answer |->
                 Returned(MixedAnswer(Get(state, "rag_answer", << >>),
                                      _compose_navigation_response(state))),
             sources |-> Get(state, "rag_sources", << >>),
             line |-> <<"Combined information and navigation guidance">>]
      [] OTHER ->
            [final_answer |->
                 Returned(<<"I'm not sure how to help with that. Please try rephrasing your question.">>),
             sources |-> << >>,
             line |-> <<"Unable to classify request">>]

\* Returned(response_data), or the exception the node lets escape
response_composer_node(state) ==
    LET intent == Get(state, "intent", "UNIVERSITY_INFO")
        stream == Get(state, "reasoning_stream", << >>)
        part == ComposeByIntent(state, intent)
    IN  IF part.final_answer.raised THEN part.final_answer
        ELSE Returned(
            [final_answer |-> part.final_answer.value,
             sources_used |-> part.sources,
             reasoning_stream |-> Append(stream, part.line),
             intent |-> intent,
             start_coordinates |-> GetOrNone(state, "start_coordinates"),
             end_coordinates |-> GetOrNone(state, "end_coordinates"),
             distance_estimate |-> GetOrNone(state, "distance_estimate"),
             route_coords |-> GetOrNone(state, "route_coords"),
             rag_confidence |-> GetOrNone(state, "rag_confidence"),
             geo_confidence |-> GetOrNone(state, "geo_confidence")])

-----------------------------------------------------------------------------
(* The driver: AstuRouteGraph.execute and AstuRouteGraph.stream_execute *)

NodeEventsAnswerOnly(node_name, state_update) ==
    IF "final_answer" \in DOMAIN state_update
    THEN <<[type |-> "answer", node |-> node_name,
            data |-> [final_answer |-> state_update.final_answer],
            sources |-> Get(state_update, "sources_used", << >>)]>>
    ELSE << >>

\* the events stream_execute yields for one node's update
NodeEvents(node_name, state_update) ==
    (IF "reasoning_stream" \in DOMAIN state_update
     THEN <<[type |-> "reasoning", node |-> node_name,
             data |-> state_update.reasoning_stream]>>
     ELSE << >>)
    \o (IF "final_answer" \in DOMAIN state_update
        THEN <<[type |-> "answer", node |-> node_name,
                data |->
                    [final_answer |-> GetOrNone(state_update, "final_answer"),
                     intent |-> GetOrNone(state_update, "intent"),
                     start_coordinates |->
                         GetOrNone(state_update, "start_coordinates"),
                     end_coordinates |->
                         GetOrNone(state_update, "end_coordinates"),
                     distance_estimate |->
                         GetOrNone(state_update, "distance_estimate"),
                     route_coords |-> GetOrNone(state_update, "route_coords"),
                     rag_confidence |-> GetOrNone(state_update, "rag_confidence"),
                     geo_confidence |-> GetOrNone(state_update, "geo_confidence"),
                     sources_used |-> Get(state_update, "sources_used", << >>),
                     answer |-> GetOrNone(state_update, "final_answer")],
                sources |-> Get(state_update, "sources_used", << >>)]>>
        ELSE << >>)
    \o (IF "error" \in DOMAIN state_update
        THEN <<[type |-> "error", node |-> node_name,
                data |-> state_update.error]>>
        ELSE << >>)

\* the messages generate() writes for one event of stream_execute
SseOfEvent(event) ==
    CASE event.type = "reasoning" ->
             [i \in 1..Len(event.data) |->
                 [type |-> "reasoning", content |-> event.data[i]]]
      [] event.type = "answer" ->
             <<[type |-> "answer", content |-> event.data,
                sources |-> Get(event, "sources", << >>)]>>
      [] event.type = "error" ->
             <<[type |-> "error", content |-> event.data]>>
      [] OTHER -> << >>

RECURSIVE SseOfEvents(_)
SseOfEvents(evs) ==
    IF evs = << >> THEN << >>
    ELSE SseOfEvent(Head(evs)) \o SseOfEvents(Tail(evs))

SseDoneTwice == <<[type |-> "done"], [type |-> "done"]>>

\* the message generate() writes when stream_execute's loop has ended
SseDone == <<[type |-> "done"]>>

\* what generate() writes for the events evs, the last of which ends the
\* stream if ended
Generate(evs, ended) ==
    SseOfEvents(evs) \o (IF ended THEN SseDone ELSE << >>)

\* one node ran and returned patch; the edge out of it leads to next
NodeStep(node_name, patch, next) ==
    /\ ctx' = Merge(ctx, patch)
    /\ trace' = Append(trace, node_name)
    /\ events' = IF exec_mode = "stream"
                 THEN events \o NodeEvents(node_name, StateUpdate(patch))
                 ELSE events
    /\ sse' = IF exec_mode = "stream"
              THEN sse \o Generate(NodeEvents(node_name, StateUpdate(patch)),
                                   next = "done")
              ELSE sse
    /\ pc' = next

\* the event stream_execute yields when the graph run raises
WorkflowError(msg) ==
    <<[type |-> "error", node |-> "workflow", data |-> msg]>>

ExecuteErrorResultBare(msg) == [error |-> msg]

\* the result execute builds when the graph run raises
ExecuteErrorResult(msg) ==
    [final_answer |-> <<"An error occurred while processing your request.">>,
     error |-> msg,
     reasoning_stream |-> <<<<"Error occurred during processing">>>>]

\* the except block of execute and of stream_execute
OrchestratorExcept(msg) ==
    /\ events' = IF exec_mode = "stream"
                 THEN events \o WorkflowError(msg) ELSE events
    /\ sse' = IF exec_mode = "stream"
              THEN sse \o Generate(WorkflowError(msg), TRUE) ELSE sse
    /\ result' = IF exec_mode = "batch"
                 THEN ExecuteErrorResult(msg) ELSE result

Init ==
    /\ ctx \in Requests
    /\ pc = "user_input"
    /\ trace = << >>
    /\ failed = {}
    /\ exec_mode \in {"batch", "stream"}
    /\ events = << >>
    /\ gen_calls = 0
    /\ gen_out = None
    /\ kb_rows = << >>
    /\ geo_out = None
    /\ composer_in = None
    /\ composer_out = None
    /\ eng = None
    /\ sse = << >>
    /\ proc = None
    /\ result = None

UserInput ==
    /\ pc = "user_input"
    /\ NodeStep("user_input", user_input_node(ctx), "intent_classifier")
    /\ UNCHANGED <<eng, proc>>
    /\ UNCHANGED <<failed, exec_mode, gen_calls, gen_out, kb_rows, geo_out,
                   composer_in, composer_out, result>>

IntentClassifier ==
    /\ pc = "intent_classifier"
    /\ \E llm \in LlmOutcomes(ClassifierObjs) :
          /\ NodeStep("intent_classifier", intent_classifier_node(ctx, llm),
                      "routing_decision")
          /\ failed' = IF ClassifyTry(llm).raised
                       THEN failed \cup {"intent_classifier"} ELSE failed
    /\ UNCHANGED <<eng, proc>>
    /\ UNCHANGED <<exec_mode, gen_calls, gen_out, kb_rows, geo_out,
                   composer_in, composer_out, result>>

\* the conditional edge out of intent_classifier
RoutingDecision ==
    /\ pc = "routing_decision"
    /\ pc' = RoutingTarget(routing_decision_node(ctx))
    /\ UNCHANGED <<eng, sse, proc>>
    /\ UNCHANGED <<ctx, trace, failed, exec_mode, events, gen_calls, gen_out,
                   kb_rows, geo_out, composer_in, composer_out, result>>

RagRetriever ==
    /\ pc = "rag_retriever"
    /\ \E rows \in SearchResults :
          LET search == VectorServiceSearch(rows)
          IN  /\ NodeStep("rag_retriever", rag_retriever_node(ctx, search),
                          "rag_generator")
              /\ kb_rows' = rows
              /\ failed' = IF search.raised
                           THEN failed \cup {"rag_retriever"} ELSE failed
    /\ UNCHANGED <<eng, proc>>
    /\ UNCHANGED <<exec_mode, gen_calls, gen_out, geo_out,
                   composer_in, composer_out, result>>

RagGenerator ==
    /\ pc = "rag_generator"
    /\ \E llm \in LlmOutcomes(GeneratorObjs) :
          LET called == GeneratorCallsModel(ctx)
          IN  /\ NodeStep("rag_generator", rag_generator_node(ctx, llm),
                          "after_generator")
              /\ gen_calls' = IF called THEN gen_calls + 1 ELSE gen_calls
              /\ gen_out' = llm
              /\ failed' = IF called /\ GenerateTry(llm).raised
                           THEN failed \cup {"rag_generator"} ELSE failed
    /\ UNCHANGED <<eng, proc>>
    /\ UNCHANGED <<exec_mode, kb_rows, geo_out, composer_in, composer_out,
                   result>>

\* the conditional edge out of rag_generator
MixedCheck ==
    /\ pc = "after_generator"
    /\ pc' = AfterGeneratorTarget(AfterGenerator(ctx))
    /\ UNCHANGED <<eng, sse, proc>>
    /\ UNCHANGED <<ctx, trace, failed, exec_mode, events, gen_calls, gen_out,
                   kb_rows, geo_out, composer_in, composer_out, result>>

GeoReasoning ==
    /\ pc = "geo_reasoning"
    /\ \E env \in GeoEnvs(ctx) :
          LET patch == geo_reasoning_node(ctx, env)
          IN  /\ NodeStep("geo_reasoning", patch, "response_composer")
              /\ geo_out' = patch
              /\ failed' = IF GeoRaises(ctx, env)
                           THEN failed \cup {"geo_reasoning"} ELSE failed
    /\ UNCHANGED <<eng, proc>>
    /\ UNCHANGED <<exec_mode, gen_calls, gen_out, kb_rows, composer_in,
                   composer_out, result>>

\* response_composer, the END edge, and the return of execute or the end of
\* stream_execute's loop; an exception of the node reaches the except block
ResponseComposer ==
    /\ pc = "response_composer"
    /\ LET out == response_composer_node(ctx)
       IN  /\ composer_in' = ctx
           /\ composer_out' = out
           /\ IF out.raised
              THEN /\ ctx' = ctx
                   /\ trace' = Append(trace, "response_composer")
                   /\ pc' = "done"
                   /\ OrchestratorExcept(out.msg)
              ELSE /\ NodeStep("response_composer", out.value, "done")
                   /\ result' = IF exec_mode = "batch"
                                THEN Merge(ctx, out.value) ELSE result
    /\ UNCHANGED <<eng, proc>>
    /\ UNCHANGED <<failed, exec_mode, gen_calls, gen_out, kb_rows, geo_out>>

Next ==
    \/ UserInput
    \/ IntentClassifier
    \/ RoutingDecision
    \/ RagRetriever
    \/ RagGenerator
    \/ MixedCheck
    \/ GeoReasoning
    \/ ResponseComposer

Spec == Init /\ [][Next]_vars

-----------------------------------------------------------------------------
(* The callers of the orchestrator: routers/ai.py and routers/location.py,  *)
(* and a graph run that raises at any node                                  *)

NodePositions ==
    {"user_input", "intent_classifier", "rag_retriever", "rag_generator",
     "geo_reasoning", "response_composer"}

\* ainvoke / astream raises while the node at pc runs: an exception that no
\* node handles
GraphRaises ==
    /\ pc \in NodePositions
    /\ \E msg \in ErrTexts : OrchestratorExcept(msg)
    /\ failed' = failed \cup {"workflow"}
    /\ pc' = "done"
    /\ UNCHANGED <<ctx, trace, exec_mode, gen_calls, gen_out, kb_rows, geo_out,
                   composer_in, composer_out, eng, proc>>

StreamEndpoints == {"ai_query_stream", "navigate_stream"}

OnCancelledAsError(endpoint) ==
    <<[type |-> "error", content |-> <<"cancelled">>]>>

\* what generate() writes when its task is cancelled at the pending await:
\* ai_query_stream catches Exception only, navigate_stream catches
\* CancelledError and logs
OnCancelled(endpoint) == << >>

\* the caller of a streaming endpoint goes away while the graph runs, and
\* the response's task is cancelled
Disconnect ==
    /\ exec_mode = "stream"
    /\ pc \notin {"done", "cancelled"}
    /\ \E endpoint \in StreamEndpoints : sse' = sse \o OnCancelled(endpoint)
    /\ pc' = "cancelled"
    /\ UNCHANGED <<ctx, trace, failed, exec_mode, events, gen_calls, gen_out,
                   kb_rows, geo_out, composer_in, composer_out, eng, proc,
                   result>>

\* ai_query: the response built from what execute returned; a field of
\* AIQueryResponse that fails validation (confidence is a str) raises, and
\* the except block turns it into status 500
ai_query(res) ==
    LET rag == GetOrNone(res, "rag_confidence")
        confidence == IF Truthy(rag) THEN rag
                      ELSE Get(res, "geo_confidence", <<"medium">>)
    IN  IF confidence = None
        THEN [status |-> 500]
        ELSE [status |-> 200,
              answer |-> Get(res, "final_answer",
                             <<"Unable to process request">>),
              intent |-> Get(res, "intent", "UNKNOWN"),
              confidence |-> confidence,
              sources |-> Get(res, "sources_used", << >>),
              reasoning_steps |-> Get(res, "reasoning_stream", << >>)]

BoundaryRequests ==
    {r \in Requests : /\ r.urgency = "normal"
                      /\ (r.latitude = 0) = (r.longitude = 0)}

BoundaryInit ==
    /\ ctx \in BoundaryRequests
    /\ pc = "user_input"
    /\ trace = << >>
    /\ failed = {}
    /\ exec_mode \in {"batch", "stream"}
    /\ events = << >>
    /\ gen_calls = 0
    /\ gen_out = None
    /\ kb_rows = << >>
    /\ geo_out = None
    /\ composer_in = None
    /\ composer_out = None
    /\ eng = None
    /\ sse = << >>
    /\ proc = None
    /\ result = None

BoundaryNext ==
    \/ UserInput
    \/ IntentClassifier
    \/ RoutingDecision
    \/ RagRetriever
    \/ RagGenerator
    \/ MixedCheck
    \/ GeoReasoning
    \/ ResponseComposer
    \/ GraphRaises
    \/ Disconnect

BoundarySpec == BoundaryInit /\ [][BoundaryNext]_vars

-----------------------------------------------------------------------------
(* The nodes as functions of an arbitrary context: rag_retriever,          *)
(* rag_generator and response_composer (with the nodes between them)       *)
(* started on contexts drawn from the values the schema allows, any        *)
(* optional key absent                                                     *)

\* state with key set to value
Put(state, key, value) ==
    [k \in DOMAIN state \cup {key} |-> IF k = key THEN value ELSE state[k]]

\* the contexts of cs, and each of them with key set to one of values
Opt(cs, key, values) == cs \cup {Put(c, key, v) : c \in cs, v \in values}

\* a request after user_input
EnteredRequests ==
    {Merge(r, user_input_node(r)) :
        r \in {q \in Requests : q.latitude # 0 /\ q.longitude # 0
                                /\ q.urgency = "normal"}}

\* contexts as intent_classifier leaves them
ClassifiedContexts ==
    {Put(c, "intent", i) : c \in EnteredRequests, i \in Intents}

GeneratorContexts ==
    Opt(ClassifiedContexts,
        "retrieved_documents", {FormatDocuments(r) : r \in SearchResults})

SampleCoordinates ==
    [lat |-> 85610, lon |-> 392913, name |-> "Library"]

ComposerContexts ==
    LET c0 == {c \in EnteredRequests : c.user_query = "find a cafe"}
        c1 == Opt(c0, "intent", Intents \cup {"DIRECTIONS"})
        c2 == Opt(c1, "rag_answer", {RAG_NO_ANSWER.answer, <<"Grounded answer">>})
        c3 == Opt(c2, "rag_sources", {<<"source_1">>})
        c4 == Opt(c3, "route_summary", {<<"Route from ", "Library", " to ", "Computer Lab">>})
        c5 == Opt(c4, "distance_estimate", {<<"0.42", "km">>})
        c6 == Opt(c5, "route_steps", {<<<<"Start at ", "Library">>>>})
        c7 == Opt(c6, "geo_reasoning", {<<<<"Matched start location to: ", "Library">>>>})
        c8 == Opt(c7, "nearby_services", ServiceLists)
        c9 == Opt(c8, "service_category", {"cafe"})
        c10 == Opt(c9, "start_coordinates", {SampleCoordinates})
        c11 == Opt(c10, "end_coordinates", {SampleCoordinates})
    IN  c11

NodeInit ==
    /\ \/ pc = "rag_retriever" /\ ctx \in ClassifiedContexts
       \/ pc = "rag_generator" /\ ctx \in GeneratorContexts
       \/ pc = "response_composer" /\ ctx \in ComposerContexts
    /\ trace = << >>
    /\ failed = {}
    /\ exec_mode \in {"batch", "stream"}
    /\ events = << >>
    /\ gen_calls = 0
    /\ gen_out = None
    /\ kb_rows = << >>
    /\ geo_out = None
    /\ composer_in = None
    /\ composer_out = None
    /\ eng = None
    /\ sse = << >>
    /\ proc = None
    /\ result = None

NodeNext ==
    \/ RagRetriever
    \/ RagGenerator
    \/ MixedCheck
    \/ GeoReasoning
    \/ ResponseComposer

NodeSpec == NodeInit /\ [][NodeNext]_vars

-----------------------------------------------------------------------------
(* OSMService (services/osm_service.py) and RoutingService.get_route.       *)
(* Lengths are integers in centimetres; a point is a latitude and a         *)
(* longitude in units of 0.0001 degree, as everywhere in this module.       *)

\* F applied to the value of v, v being evaluated once
With(v, F(_)) == CHOOSE r \in {F(x) : x \in {v}} : TRUE

ASTU_CENTER == [lat |-> 85570, lng |-> 392915]

\* metres
CAMPUS_RADIUS == 1000

\* metres added to the radius before a destination counts as external
EXTERNAL_MARGIN == 200

\* geodesic(p, q).meters, in centimetres: 0.0001 degree is 11 m = 110 dm, the
\* root is taken in decimetres and refined by one decimal digit
geodesic(p, q) ==
    LET n == 12100 * ((q.lat - p.lat) * (q.lat - p.lat)
                      + (q.lng - p.lng) * (q.lng - p.lng))
        Refine(s) ==
            LET r == n - s * s
            IN  10 * s + (CHOOSE d \in 0..9 :
                    /\ 20 * s * d + d * d <= 100 * r
                    /\ (d = 9 \/ 20 * s * (d + 1) + (d + 1) * (d + 1) > 100 * r))
    IN  With(ISqrt(n), Refine)

\* round(a / b) of Python 3 for a >= 0, b > 0: to nearest, ties to even
PyRound(a, b) ==
    LET q == a \div b
        r == a % b
    IN  IF 2 * r < b THEN q
        ELSE IF 2 * r > b THEN q + 1
        ELSE IF q % 2 = 0 THEN q ELSE q + 1

\* the walking network around the campus centre as ox.graph_from_point gives
\* it: node -> position, and the edges with their "length" attribute; the
\* graph is a multigraph, key numbers the edges between one pair of nodes
CampusNodes ==
    [n \in 1..5 |->
        CASE n = 1 -> [lat |-> 85570, lng |-> 392915]
          [] n = 2 -> [lat |-> 85610, lng |-> 392915]
          [] n = 3 -> [lat |-> 85650, lng |-> 392915]
          [] n = 4 -> [lat |-> 85570, lng |-> 392995]
          [] n = 5 -> [lat |-> 85585, lng |-> 392930]]

CampusEdges ==
    {[u |-> 1, v |-> 2, key |-> 0, length |-> 44512],
     [u |-> 2, v |-> 3, key |-> 0, length |-> 44004],
     [u |-> 1, v |-> 4, key |-> 0, length |-> 88508],
     [u |-> 1, v |-> 5, key |-> 0, length |-> 23340],
     [u |-> 2, v |-> 5, key |-> 0, length |-> 32404],
     [u |-> 5, v |-> 4, key |-> 0, length |-> 73404]}

\* the network with two ways between nodes 2 and 5, the first of them (key
\* 0) a detour
ParallelEdges ==
    {e \in CampusEdges : {e.u, e.v} # {2, 5}}
    \cup {[u |-> 2, v |-> 5, key |-> 0, length |-> 40000],
          [u |-> 2, v |-> 5, key |-> 1, length |-> 32404]}

SubGraph(ns, es) ==
    [nodes |-> [n \in ns |-> CampusNodes[n]],
     edges |-> {e \in es : e.u \in ns /\ e.v \in ns}]

\* the graphs a download can produce: the whole network, a network that
\* stops short of the boundary ring, one whose gates are cut off, and the
\* whole network with parallel edges
CampusGraphs ==
    {SubGraph(1..5, CampusEdges),
     SubGraph({1, 2, 5}, CampusEdges),
     SubGraph(1..5, {e \in CampusEdges : {e.u, e.v} \subseteq {1, 2, 5}}),
     SubGraph(1..5, ParallelEdges)}

\* what load_campus_graph leaves in self.graph: None when the download failed
LoadOutcomes == {None} \cup CampusGraphs

\* ox.distance.nearest_nodes(graph, lng, lat)
nearest_nodes(graph, lng, lat) ==
    LET d2(n) == (graph.nodes[n].lat - lat) * (graph.nodes[n].lat - lat)
                 + (graph.nodes[n].lng - lng) * (graph.nodes[n].lng - lng)
    IN  CHOOSE n \in DOMAIN graph.nodes :
            \A m \in DOMAIN graph.nodes :
                d2(n) < d2(m) \/ (d2(n) = d2(m) /\ n <= m)

Neighbours(graph, u) ==
    {e.v : e \in {x \in graph.edges : x.u = u}}
    \cup {e.u : e \in {x \in graph.edges : x.v = u}}

RECURSIVE SimplePaths(_, _, _, _)
SimplePaths(graph, a, b, visited) ==
    IF a = b THEN {<<a>>}
    ELSE UNION {{<<a>> \o p : p \in SimplePaths(graph, c, b, visited \cup {a})} :
                   c \in Neighbours(graph, a) \ (visited \cup {a})}

\* graph.get_edge_data(u, v): the edges between two adjacent nodes
get_edge_data(graph, u, v) == {e \in graph.edges : {e.u, e.v} = {u, v}}

\* the "length" of the first edge between two adjacent nodes:
\* list(edge_data.values())[0]
EdgeLength(graph, u, v) ==
    LET edge_data == get_edge_data(graph, u, v)
    IN  (CHOOSE e \in edge_data : \A x \in edge_data : e.key <= x.key).length

RECURSIVE PathLength(_, _)
PathLength(graph, p) ==
    IF Len(p) < 2 THEN 0
    ELSE EdgeLength(graph, p[1], p[2]) + PathLength(graph, Tail(p))

\* the weight nx.shortest_path gives a pair of adjacent nodes of a
\* multigraph: the least "length" of the edges between them
EdgeWeight(graph, u, v) ==
    LET edge_data == get_edge_data(graph, u, v)
    IN  (CHOOSE e \in edge_data :
            \A x \in edge_data : e.length <= x.length).length

RECURSIVE PathWeight(_, _)
PathWeight(graph, p) ==
    IF Len(p) < 2 THEN 0
    ELSE EdgeWeight(graph, p[1], p[2]) + PathWeight(graph, Tail(p))

\* nx.shortest_path(graph, a, b, weight="length"): raises NetworkXNoPath
shortest_path(graph, a, b) ==
    LET Shortest(ps) ==
            IF ps = {} THEN Raised(<<"No path between nodes">>)
            ELSE Returned(CHOOSE p \in ps :
                     \A q \in ps : PathWeight(graph, p) <= PathWeight(graph, q))
    IN  With(SimplePaths(graph, a, b, {}), Shortest)

RouteCoords(graph, route) ==
    [i \in 1..Len(route) |-> graph.nodes[route[i]]]

_generate_instructions(route) ==
    <<<<"Start from your current location">>>>
    \o (IF Len(route) <= 2 THEN <<<<"Walk straight to your destination">>>>
        ELSE IF Len(route) <= 5 THEN <<<<"Continue walking along the path">>>>
        ELSE <<<<"Follow the walking path">>,
               <<"Continue for approximately ", ToString(Len(route) * 20),
                 " meters">>>>)
    \o <<<<"You have arrived at your destination">>>>

\* the four figures every route dictionary carries, from the total length in
\* centimetres: metres to one decimal (in decimetres), kilometres to two
\* decimals, seconds at 1.4 m/s, minutes to one decimal
RouteFigures(total_distance) ==
    With(total_distance,
         LAMBDA d : [distance_decimeters |-> PyRound(d, 10),
                     distance_centikm |-> PyRound(d, 1000),
                     duration_seconds |-> PyRound(d, 140),
                     duration_deciminutes |-> PyRound(d, 840)])

BestExitOfAllNodes(graph, end) ==
    {CHOOSE n \in DOMAIN graph.nodes :
        \A m \in DOMAIN graph.nodes :
            \/ geodesic(graph.nodes[n], end) < geodesic(graph.nodes[m], end)
            \/ /\ geodesic(graph.nodes[n], end) = geodesic(graph.nodes[m], end)
               /\ n <= m}

\* best_exit: the boundary node nearest the destination, in a set that is
\* empty when the graph has no boundary node
BestExit(graph, end) ==
    LET boundary_nodes ==
            {n \in DOMAIN graph.nodes :
                100 * geodesic(ASTU_CENTER, graph.nodes[n])
                    > 85 * (CAMPUS_RADIUS * 100)}
    IN  IF boundary_nodes = {} THEN {}
        ELSE {CHOOSE n \in boundary_nodes :
                 \A m \in boundary_nodes :
                     \/ geodesic(graph.nodes[n], end) < geodesic(graph.nodes[m], end)
                     \/ /\ geodesic(graph.nodes[n], end) = geodesic(graph.nodes[m], end)
                        /\ n <= m}

\* the two legs of a hybrid route before any rounding, or None
HybridLegs(graph, start, end) ==
    LET Legs(exit_node, route) ==
            IF route.raised THEN None
            ELSE [route |-> route.value,
                  campus_distance |-> PathLength(graph, route.value),
                  external_distance |-> geodesic(graph.nodes[exit_node], end)]
        ViaExit(exit_node) ==
            With(shortest_path(graph,
                     nearest_nodes(graph, start.lng, start.lat), exit_node),
                 LAMBDA route : Legs(exit_node, route))
        Via(best_exit) ==
            IF best_exit = {} THEN None
            ELSE ViaExit(CHOOSE n \in best_exit : TRUE)
    IN  With(BestExit(graph, end), Via)

HybridTotalCampusOnly(campus_distance, external_distance) == campus_distance

\* total_distance of a hybrid route
HybridTotal(campus_distance, external_distance) ==
    campus_distance + external_distance

_route_to_external_destination(graph, start, end) ==
    LET Result(legs, f) ==
            [distance_decimeters |-> f.distance_decimeters,
             distance_centikm |-> f.distance_centikm,
             duration_seconds |-> f.duration_seconds,
             duration_deciminutes |-> f.duration_deciminutes,
             route_coords |-> RouteCoords(graph, legs.route) \o <<end>>,
             instructions |->
                 <<<<"Start from your current location">>,
                   <<"Follow the campus path to the nearest exit (",
                     ToString(PyRound(legs.campus_distance, 100)), "m)">>,
                   <<"Exit the campus">>,
                   <<"Continue straight for approximately ",
                     ToString(PyRound(legs.external_distance, 100)),
                     "m to reach your destination">>,
                   <<"You have arrived at your destination">>>>,
             nodes_count |-> Len(legs.route),
             external_destination |-> TRUE,
             campus_distance_decimeters |-> PyRound(legs.campus_distance, 10),
             external_distance_decimeters |-> PyRound(legs.external_distance, 10)]
        Route(legs) ==
            IF legs = None THEN None
            ELSE With(RouteFigures(HybridTotal(legs.campus_distance,
                                               legs.external_distance)),
                      LAMBDA f : Result(legs, f))
    IN  With(HybridLegs(graph, start, end), Route)

is_external_destination_radius_only(end) ==
    geodesic(ASTU_CENTER, end) > CAMPUS_RADIUS * 100

is_external_destination(end) ==
    geodesic(ASTU_CENTER, end) > (CAMPUS_RADIUS + EXTERNAL_MARGIN) * 100

OSMService_get_route_unloaded(graph, start, end) ==
    _route_to_external_destination(
        IF graph = None THEN SubGraph(1..5, CampusEdges) ELSE graph, start, end)

\* OSMService.get_route; graph is what the lazy load left
OSMService_get_route(graph, start, end) ==
    IF graph = None THEN None
    ELSE IF is_external_destination(end)
    THEN _route_to_external_destination(graph, start, end)
    ELSE
    LET Result(route, f) ==
            [distance_decimeters |-> f.distance_decimeters,
             distance_centikm |-> f.distance_centikm,
             duration_seconds |-> f.duration_seconds,
             duration_deciminutes |-> f.duration_deciminutes,
             route_coords |-> RouteCoords(graph, route),
             instructions |-> _generate_instructions(route),
             nodes_count |-> Len(route)]
        Route(route) ==
            IF route.raised THEN None
            ELSE With(RouteFigures(PathLength(graph, route.value)),
                      LAMBDA f : Result(route.value, f))
    IN  With(shortest_path(graph,
                 nearest_nodes(graph, start.lng, start.lat),
                 nearest_nodes(graph, end.lng, end.lat)), Route)

\* RoutingService.get_route; osm is [graph |-> ...] when an OSM service was
\* injected, None otherwise
RoutingService_get_route(osm, start, end) ==
    IF osm # None THEN OSMService_get_route(osm.graph, start, end) ELSE None

-----------------------------------------------------------------------------
(* The route endpoint (routers/osm.py) *)

\* the try block of calculate_osm_route for what get_route returned: the
\* HTTPException(404) is raised inside the try
RouteTry(osm_result) ==
    IF osm_result = None
    THEN Raised(<<"404", ": ", "Route not found">>)
    ELSE Returned(osm_result)

\* calculate_osm_route: except Exception catches whatever the try block
\* raised, the HTTPException included, and raises HTTPException(500, str(e))
RouteResponse(osm_result) ==
    LET r == RouteTry(osm_result)
    IN  IF r.raised THEN [status |-> 500, detail |-> r.msg]
        ELSE [status |-> 200, body |-> r.value]

calculate_osm_route(graph, start, end) ==
    RouteResponse(OSMService_get_route(graph, start, end))

-----------------------------------------------------------------------------
(* The process and its OSMService instances: main.py lifespan, the global   *)
(* container of core/container.py, and the containers the routers build     *)

\* most OSMService instances made in one process lifetime of the model
MaxOsmServices == 5

\* OSMService.__init__; graph 0 stands for None, graph n for the n-th graph
\* downloaded by the process
OSMService(owner) ==
    [owner |-> owner, graph |-> 0, campus_graph_loaded |-> FALSE]

\* OSMService.load_campus_graph; ok is whether the download succeeded, n the
\* number of downloads that succeeded before it
load_campus_graph(service, ok, n) ==
    IF ok THEN [service EXCEPT !.graph = n + 1, !.campus_graph_loaded = TRUE]
    ELSE [service EXCEPT !.campus_graph_loaded = FALSE]

\* the lazy load at the head of OSMService.get_route
LazyLoad(service, ok, n) ==
    IF ~service.campus_graph_loaded
    THEN load_campus_graph(service, ok, n)
    ELSE service

\* the downloads that succeeded when the services were left as after
Downloads(before, after) ==
    IF after.graph # before.graph THEN 1 ELSE 0

ProcessInit ==
    /\ proc = [phase |-> "startup", services |-> << >>, container_osm |-> 0,
               loads |-> 0]
    /\ pc = "process"
    /\ ctx = [user_query |-> "from library to lab", urgency |-> "normal"]
    /\ trace = << >>
    /\ failed = {}
    /\ exec_mode = "batch"
    /\ events = << >>
    /\ gen_calls = 0
    /\ gen_out = None
    /\ kb_rows = << >>
    /\ geo_out = None
    /\ composer_in = None
    /\ composer_out = None
    /\ eng = None
    /\ sse = << >>
    /\ result = None

\* lifespan: the preload is made on an OSMService of its own
Lifespan ==
    /\ proc.phase = "startup"
    /\ \E ok \in BOOLEAN :
         LET made == OSMService("lifespan")
             loaded == load_campus_graph(made, ok, proc.loads)
         IN  proc' = [proc EXCEPT !.phase = "serving",
                                  !.services = Append(@, loaded),
                                  !.loads = @ + Downloads(made, loaded)]
    /\ UNCHANGED <<ctx, pc, trace, failed, exec_mode, events, gen_calls,
                   gen_out, kb_rows, geo_out, composer_in, composer_out, eng,
                   sse, result>>

\* a route request served through the global container (routers/osm.py,
\* routers/ai.py, routers/route.py): container.get_osm_service() makes the
\* service on first use, get_route loads its graph if it is not loaded
ContainerRoute ==
    /\ proc.phase = "serving"
    /\ proc.container_osm = 0 => Len(proc.services) < MaxOsmServices
    /\ \E ok \in BOOLEAN :
         LET services == IF proc.container_osm = 0
                         THEN Append(proc.services, OSMService("container"))
                         ELSE proc.services
             i == IF proc.container_osm = 0 THEN Len(services)
                  ELSE proc.container_osm
             loaded == LazyLoad(services[i], ok, proc.loads)
         IN  proc' = [proc EXCEPT !.services = [services EXCEPT ![i] = loaded],
                                  !.container_osm = i,
                                  !.loads = @ + Downloads(services[i], loaded)]
    /\ UNCHANGED <<ctx, pc, trace, failed, exec_mode, events, gen_calls,
                   gen_out, kb_rows, geo_out, composer_in, composer_out, eng,
                   sse, result>>

\* a navigation request of routers/location.py: get_graph() builds a new
\* ServiceContainer, whose OSMService is new and loads its graph on get_route
LocationRoute ==
    /\ proc.phase = "serving"
    /\ Len(proc.services) < MaxOsmServices
    /\ \E ok \in BOOLEAN :
         LET made == OSMService("request")
             loaded == LazyLoad(made, ok, proc.loads)
         IN  proc' = [proc EXCEPT !.services = Append(@, loaded),
                                  !.loads = @ + Downloads(made, loaded)]
    /\ UNCHANGED <<ctx, pc, trace, failed, exec_mode, events, gen_calls,
                   gen_out, kb_rows, geo_out, composer_in, composer_out, eng,
                   sse, result>>

ProcessNext ==
    \/ Lifespan
    \/ ContainerRoute
    \/ LocationRoute

ProcessSpec == ProcessInit /\ [][ProcessNext]_vars

-----------------------------------------------------------------------------
(* RoutingService.find_nearby_services (services/routing_service.py)       *)

\* rows a search for a service may return: two cafes by category, one by
\* name only, one beyond 5 km, and a row that matches in neither
ServicePois ==
    {[id |-> 11, name |-> "Campus Cafe", category |-> "cafe",
      latitude |-> 85575, longitude |-> 392915],
     [id |-> 12, name |-> "Corner Cafe", category |-> "restaurant",
      latitude |-> 85690, longitude |-> 392911],
     [id |-> 13, name |-> "Town Cafe", category |-> "cafe",
      latitude |-> 86100, longitude |-> 392911],
     [id |-> 14, name |-> "Library", category |-> "library",
      latitude |-> 85571, longitude |-> 392911]}

\* search_term_lower in name.lower() or in category.lower()
TermMatches(term, poi) ==
    \/ poi.category = term
    \/ (term = "cafe"
        /\ poi.name \in {"Campus Cafe", "Corner Cafe", "Town Cafe"})
    \/ (term = "library" /\ poi.name = "Library")

KeepOrder(rows) == rows

\* list.sort(key=distance_km): a stable sort, by insertion
RECURSIVE SortByDistance(_)
SortByDistance(rows) ==
    IF rows = << >> THEN << >>
    ELSE LET sorted == SortByDistance(SubSeq(rows, 1, Len(rows) - 1))
             last == rows[Len(rows)]
             before == SelectSeq(sorted,
                                 LAMBDA r : r.distance_km <= last.distance_km)
             after == SelectSeq(sorted,
                                LAMBDA r : r.distance_km > last.distance_km)
         IN  before \o <<last>> \o after

\* find_nearby_services: pois is what search_pois(service_type, limit=50)
\* gave; distances are in metres, distance_km in hundredths of a kilometre
find_nearby_services(latitude, longitude, service_type, radius_km, pois) ==
    IF pois.raised
    THEN Raised(<<"Service search failed: ">> \o pois.msg)
    ELSE LET Distance(poi) ==
                 haversine_distance(latitude, longitude,
                                    poi.latitude, poi.longitude)
             kept == SelectSeq(pois.value,
                               LAMBDA poi :
                                   /\ Distance(poi) <= radius_km * 1000
                                   /\ TermMatches(service_type, poi))
             nearby_services ==
                 [i \in 1..Len(kept) |->
                     [id |-> kept[i].id,
                      name |-> kept[i].name,
                      category |-> kept[i].category,
                      latitude |-> kept[i].latitude,
                      longitude |-> kept[i].longitude,
                      distance_km |-> PyRound(Distance(kept[i]), 10)]]
         IN  Returned(SortByDistance(nearby_services))

-----------------------------------------------------------------------------
(* RoutingService.find_route (services/routing_service.py) *)

\* the rows of the pois table: the two campus POIs and a building whose
\* category is not a word of its name
PoiTable ==
    POIs \cup {[id |-> 7, name |-> "Block 8", category |-> "building",
                latitude |-> 85590, longitude |-> 392920]}

\* the rows of a set in the order of their ids
RECURSIVE ById(_)
ById(rows) ==
    IF rows = {} THEN << >>
    ELSE LET p == CHOOSE r \in rows : \A q \in rows : r.id <= q.id
         IN  <<p>> \o ById(rows \ {p})

\* Database.get_pois_by_category(category, limit)
get_pois_by_category(category, limit) ==
    Take(ById({p \in PoiTable : p.category = category}), limit)

\* _find_poi_by_name; name is the list of the lower-cased words of the name
RECURSIVE _find_poi_by_name(_)
_find_poi_by_name(name) ==
    IF name = << >> THEN None
    ELSE IF get_pois_by_category(Head(name), 1) # << >>
    THEN get_pois_by_category(Head(name), 1)[1]
    ELSE _find_poi_by_name(Tail(name))

\* _estimate_walking_time, of a distance in metres: max(1, int(km / 0.0014))
_estimate_walking_time(distance_m) ==
    LET t == (distance_m * 10) \div 14
    IN  IF t < 1 THEN 1 ELSE t

\* the urgency adjustment of find_route
FindRouteUrgency(walking_time, urgency) ==
    CASE urgency = "exam" -> (walking_time * 8) \div 10
      [] urgency = "accessibility" -> (walking_time * 13) \div 10
      [] OTHER -> walking_time

find_route(start_name, end_name, urgency) ==
    LET start_poi == _find_poi_by_name(start_name)
        end_poi == _find_poi_by_name(end_name)
    IN  IF start_poi = None THEN Raised(<<"Location not found: ">> \o start_name)
        ELSE IF end_poi = None THEN Raised(<<"Location not found: ">> \o end_name)
        ELSE
        LET distance == haversine_distance(start_poi.latitude, start_poi.longitude,
                                           end_poi.latitude, end_poi.longitude)
        IN  Returned(
                [start_name |-> start_poi.name,
                 end_name |-> end_poi.name,
                 total_distance_centikm |-> RoundDiv(distance, 10),
                 urgency_mode |-> urgency,
                 estimated_time_minutes |->
                     FindRouteUrgency(_estimate_walking_time(distance), urgency)])

-----------------------------------------------------------------------------
(* VectorSearchService.search_pois (services/vector_service.py) *)

\* the methods class Database defines
DatabaseMethods ==
    {"connect", "disconnect", "init_pgvector", "create_tables",
     "test_connection", "insert_poi", "get_pois_by_category",
     "get_nearby_pois", "insert_document", "semantic_search"}

\* the fields of the POI model; a keyword that is not a field is dropped
POIFields ==
    {"id", "name", "category", "latitude", "longitude", "description",
     "building", "block_num", "floor", "room_num", "capacity", "facilities",
     "tags", "osm_id", "created_at"}

\* the semantic tier: the exception it ends with, or the POIs it returns.
\* env.embedding is the outcome of generate_embedding, env.semantic the rows
\* the similarity query selects
SemanticTier(env) ==
    IF env.embedding.raised THEN env.embedding
    ELSE IF "execute_query" \notin DatabaseMethods
    THEN Raised(<<"'Database' object has no attribute 'execute_query'">>)
    ELSE IF env.semantic = << >> THEN Returned(<< >>)
    ELSE IF "similarity" \notin POIFields
    THEN Raised(<<"'POI' object has no attribute 'similarity'">>)
    ELSE Returned(env.semantic)

\* the fallback: the rows of every keyword's category, one keyword after
\* the other
RECURSIVE CategoryTier(_, _)
CategoryTier(keywords, limit) ==
    IF keywords = << >> THEN << >>
    ELSE get_pois_by_category(Head(keywords), limit)
             \o CategoryTier(Tail(keywords), limit)

\* search_pois(query, limit); query is the list of its lower-cased words
search_pois(query, limit, env) ==
    LET semantic == SemanticTier(env)
    IN  IF ~semantic.raised /\ semantic.value # << >>
        THEN Returned(semantic.value)
        ELSE Returned(Take(CategoryTier(query, limit), limit))

-----------------------------------------------------------------------------
(* The routing engine called on its own: the route part of                   *)
(* _handle_navigation between two resolved places with a concrete           *)
(* OSMService behind RoutingService.get_route, and find_route               *)

\* resolved places: the two campus POIs, one between the radius and the
\* margin (1100 m from the centre), one just inside the margin (1199 m), one
\* just outside (1210 m) and one in town (1605 m)
Places ==
    POIs
    \cup {[id |-> 3, name |-> "Stadium", category |-> "sport",
           latitude |-> 85670, longitude |-> 392915],
          [id |-> 4, name |-> "North Fence", category |-> "landmark",
           latitude |-> 85679, longitude |-> 392915],
          [id |-> 5, name |-> "Bus Stop", category |-> "transport",
           latitude |-> 85680, longitude |-> 392915],
          [id |-> 6, name |-> "Adama Market", category |-> "market",
           latitude |-> 85586, longitude |-> 393060]}

PointOf(poi) == [lat |-> poi.latitude, lng |-> poi.longitude]

\* the OSM service RoutingService was built with: none, or one whose lazy
\* load leaves a graph or fails
OsmServices == {None} \cup {[graph |-> g] : g \in LoadOutcomes}

\* names handed to find_route, as lists of words
PlaceNames == {<<"library">>, <<"computer", "lab">>, <<"stadium">>}

\* the most rows a similarity query is taken to select
MaxSemantic == 2

\* what the similarity query of search_pois(..., limit) may select
SemanticRows(limit) ==
    {<< >>} \cup {<<p>> : p \in PoiTable}
    \cup (IF limit < 2 \/ MaxSemantic < 2 THEN {}
          ELSE {<<x[1], x[2]>> :
                   x \in {y \in PoiTable \X PoiTable : y[1] # y[2]}})

\* what generate_embedding may give
EmbeddingOutcomes ==
    {Raised(<<"embedding service unavailable">>), Returned(<<"embedding">>)}

\* queries handed to search_pois, as lists of lower-cased words
PoiQueries ==
    {<<"library">>, <<"block", "8">>, <<"computer", "lab">>, <<"library", "lab">>}

\* the names a 'from X to Y' query holds, as lists of lower-cased words
QueryNames(query) ==
    CASE query = "from library to lab" -> <<<<"library">>, <<"lab">>>>
      [] query = "from block 8 to library" -> <<<<"block", "8">>, <<"library">>>>

\* queries handed to extract_locations_from_query, as words
ExtractQueries ==
    {<<"from", "library", "to", "lab">>,
     <<"take", "me", "from", "library", "to", "the", "lab">>,
     <<"find", "the", "way", "from", "lab", "to", "library">>,
     <<"how", "do", "i", "get", "to", "the", "library">>,
     <<"where", "is", "the", "lab">>,
     <<"go", "to", "lab", "from", "library">>,
     <<"away", "from", "lab">>,
     <<"library">>}

\* the word by which a row of the table is found
NameWord(poi) ==
    CASE poi.name = "Library" -> "library"
      [] poi.name = "Computer Lab" -> "lab"
      [] OTHER -> "block"

\* search_pois(name, limit=1) when the rows with ids in down are not found:
\* the first row whose word occurs in name, if any
TopResult(name, down) ==
    LET hits == {p \in PoiTable :
                    /\ p.id \notin down
                    /\ \E i \in 1..Len(name) : name[i] = NameWord(p)}
    IN  IF hits = {} THEN << >>
        ELSE <<CHOOSE p \in hits : \A q \in hits : p.id <= q.id>>

\* what the search inside find_nearby_services may return: up to three of
\* the rows, in any order
ServiceSearches ==
    {l \in UNION {[1..n -> ServicePois] : n \in 0..3} :
        \A i, j \in 1..Len(l) : i # j => l[i] # l[j]}

EngineCalls ==
    {[op |-> "navigate", osm |-> o, start |-> s, end |-> e, urgency |-> u] :
        o \in OsmServices, s \in Places, e \in Places, u \in Urgencies}
    \cup {[op |-> "find_route", start_name |-> s, end_name |-> e, urgency |-> u] :
        s \in PlaceNames, e \in PlaceNames, u \in Urgencies}
    \cup UNION {{[op |-> "search_pois", query |-> q, limit |-> l,
                  embedding |-> e, semantic |-> r] :
                    q \in PoiQueries, e \in EmbeddingOutcomes, r \in SemanticRows(l)} :
                 l \in {1, 10}}
    \cup {[op |-> "resolve", query |-> q, embedding |-> e,
           semantic1 |-> r1, semantic2 |-> r2, campus |-> c] :
             q \in {"from library to lab", "from block 8 to library"},
             e \in EmbeddingOutcomes,
             r1 \in SemanticRows(1), r2 \in SemanticRows(1),
             c \in {<< >>, ById(PoiTable)}}
    \cup {[op |-> "extract", words |-> w, down |-> d, latitude |-> la,
           longitude |-> lo] :
             w \in ExtractQueries, d \in SUBSET {1, 2},
             la \in {0, DefaultLat}, lo \in {0, DefaultLon}}
    \cup {[op |-> "nearby", pois |-> l, radius_km |-> r,
           latitude |-> x[1], longitude |-> x[2]] :
             l \in ServiceSearches, r \in {1, 5},
             x \in {<<DefaultLat, DefaultLon>>, <<85600, 392900>>}}

EngineInit ==
    /\ eng \in EngineCalls
    /\ pc = eng.op
    /\ ctx = [user_query |-> "from library to lab", urgency |-> "normal"]
    /\ trace = << >>
    /\ failed = {}
    /\ exec_mode = "batch"
    /\ events = << >>
    /\ gen_calls = 0
    /\ gen_out = None
    /\ kb_rows = << >>
    /\ geo_out = None
    /\ composer_in = None
    /\ composer_out = None
    /\ sse = << >>
    /\ proc = None
    /\ result = None

\* lines 203-318 of _handle_navigation for the places of the call
Navigate ==
    /\ pc = "navigate"
    /\ \E osm_route \in {RoutingService_get_route(eng.osm, PointOf(eng.start),
                                                  PointOf(eng.end))} :
         LET state == [user_query |-> ctx.user_query, urgency |-> eng.urgency]
         IN  eng' = Put(Put(eng, "route", osm_route), "nav",
                        NavigationRoute(state, << >>, eng.start, eng.end,
                                        <<"Route: ", eng.start.name, " to ",
                                          eng.end.name>>, osm_route))
    /\ pc' = "done"
    /\ UNCHANGED <<ctx, trace, failed, exec_mode, events, gen_calls, gen_out,
                   kb_rows, geo_out, composer_in, composer_out, sse, proc,
                   result>>

FindRoute ==
    /\ pc = "find_route"
    /\ eng' = Put(eng, "found",
                  find_route(eng.start_name, eng.end_name, eng.urgency))
    /\ pc' = "done"
    /\ UNCHANGED <<ctx, trace, failed, exec_mode, events, gen_calls, gen_out,
                   kb_rows, geo_out, composer_in, composer_out, sse, proc,
                   result>>

SearchPois ==
    /\ pc = "search_pois"
    /\ eng' = Put(eng, "found",
                  search_pois(eng.query, eng.limit,
                              [embedding |-> eng.embedding,
                               semantic |-> eng.semantic]))
    /\ pc' = "done"
    /\ UNCHANGED <<ctx, trace, failed, exec_mode, events, gen_calls, gen_out,
                   kb_rows, geo_out, composer_in, composer_out, sse, proc,
                   result>>

\* _handle_navigation for a 'from X to Y' request as user_input leaves it,
\* every search made by search_pois
Resolve ==
    /\ pc = "resolve"
    /\ \E route \in GetRouteOutcomes :
         LET state == [user_query |-> eng.query, urgency |-> "normal",
                       latitude |-> DefaultLat, longitude |-> DefaultLon]
             search(query, limit, rows) ==
                 search_pois(query, limit,
                             [embedding |-> eng.embedding, semantic |-> rows])
             env == [s1 |-> search(QueryNames(eng.query)[1], 1, eng.semantic1),
                     s2 |-> search(QueryNames(eng.query)[2], 1, eng.semantic2),
                     campus1 |-> Returned(<< >>),
                     campus2 |-> search(<<"campus", "location">>, 50, eng.campus),
                     route |-> route]
         IN  eng' = Put(Put(eng, "env", env), "nav", _handle_navigation(state, env))
    /\ pc' = "done"
    /\ UNCHANGED <<ctx, trace, failed, exec_mode, events, gen_calls, gen_out,
                   kb_rows, geo_out, composer_in, composer_out, sse, proc,
                   result>>

\* extract_locations_from_query for the words of the call, every search
\* answered from the table
Extract ==
    /\ pc = "extract"
    /\ \E plan \in {ExtractPlan(eng.words)} :
         LET Search(i) == IF i <= Len(plan.names)
                          THEN Returned(TopResult(plan.names[i], eng.down))
                          ELSE Returned(<< >>)
             env == [s1 |-> Search(1), s2 |-> Search(2),
                     campus1 |-> Returned(ById(PoiTable))]
         IN  eng' = Put(Put(eng, "plan", plan), "found",
                        LocationsFromWords(eng.words, env, eng.latitude,
                                           eng.longitude))
    /\ pc' = "done"
    /\ UNCHANGED <<ctx, trace, failed, exec_mode, events, gen_calls, gen_out,
                   kb_rows, geo_out, composer_in, composer_out, sse, proc,
                   result>>

\* find_nearby_services for the request 'find a cafe', the patch
\* _handle_nearby_service makes of its result, and the text
\* _compose_nearby_response makes of the patched context
Nearby ==
    /\ pc = "nearby"
    /\ \E found \in {find_nearby_services(eng.latitude, eng.longitude, "cafe",
                                          eng.radius_km, Returned(eng.pois))} :
         LET state == [user_query |-> "find a cafe",
                       latitude |-> eng.latitude, longitude |-> eng.longitude,
                       intent |-> "NEARBY_SERVICE"]
             patch == _handle_nearby_service(state, found)
         IN  eng' = Put(Put(Put(eng, "found", found), "patch", patch),
                        "answer", _compose_nearby_response(Merge(state, patch)))
    /\ pc' = "done"
    /\ UNCHANGED <<ctx, trace, failed, exec_mode, events, gen_calls, gen_out,
                   kb_rows, geo_out, composer_in, composer_out, sse, proc,
                   result>>

EngineNext ==
    \/ Navigate
    \/ FindRoute
    \/ SearchPois
    \/ Resolve
    \/ Extract
    \/ Nearby

EngineSpec == EngineInit /\ [][EngineNext]_vars

-----------------------------------------------------------------------------
(* Properties *)

Last(s) == s[Len(s)]

IsPrefix(s, t) == Len(s) <= Len(t) /\ SubSeq(t, 1, Len(s)) = s

\* part occurs in text starting at position i
OccursAt(text, part, i) ==
    /\ i >= 1
    /\ i + Len(part) - 1 <= Len(text)
    /\ SubSeq(text, i, i + Len(part) - 1) = part

Ran(node_name) == \E i \in 1..Len(trace) : trace[i] = node_name

\* the node sequence stated for each intent
NodeSequence(intent) ==
    CASE intent \in {"NAVIGATION", "NEARBY_SERVICE"} ->
            <<"user_input", "intent_classifier", "geo_reasoning",
              "response_composer">>
      [] intent = "UNIVERSITY_INFO" ->
            <<"user_input", "intent_classifier", "rag_retriever",
              "rag_generator", "response_composer">>
      [] intent = "MIXED" ->
            <<"user_input", "intent_classifier", "rag_retriever",
              "rag_generator", "geo_reasoning", "response_composer">>
      [] OTHER -> << >>

\* C1: every run executes the node sequence of its classified intent
\* (NAVIGATION, NEARBY_SERVICE: user_input, intent_classifier, geo_reasoning,
\* response_composer; UNIVERSITY_INFO: ..., rag_retriever, rag_generator,
\* response_composer; MIXED: ..., rag_retriever, rag_generator, geo_reasoning,
\* response_composer): what has run is at each moment a prefix of that
\* sequence, so no node runs twice and no other order occurs, and after
\* response_composer the whole sequence has run and no step is possible.
C1_NodeSequences ==
    /\ IF Len(trace) < 2
       THEN IsPrefix(trace, <<"user_input", "intent_classifier">>)
       ELSE "intent" \in DOMAIN ctx /\ IsPrefix(trace, NodeSequence(ctx.intent))
    /\ Ran("response_composer") => pc = "done"
    /\ pc = "done" => trace = NodeSequence(ctx.intent) /\ ~ENABLED Next

C1_Witness ==
    /\ pc = "done"
    /\ ctx.intent = "MIXED"
    /\ trace = NodeSequence("MIXED")

\* C3: whenever the routing decision after intent_classifier or the MIXED
\* check after rag_generator is evaluated, the context's intent is one of
\* NAVIGATION, NEARBY_SERVICE, UNIVERSITY_INFO, MIXED, also when the
\* classification call failed or the model answered with another label.
C3_IntentAtBranch ==
    pc \in {"routing_decision", "after_generator"} =>
        "intent" \in DOMAIN ctx /\ ctx.intent \in Intents

C3_Witness ==
    /\ pc = "after_generator"
    /\ "intent_classifier" \in failed
    /\ ctx.intent = "UNIVERSITY_INFO"

\* the prefix each node's except block puts before the exception's text
ErrorPrefixes(node_name) ==
    CASE node_name = "rag_retriever" -> {"Retrieval failed: "}
      [] node_name = "rag_generator" -> {"Generation failed: "}
      [] node_name = "geo_reasoning" ->
            {"Navigation failed: ", "Nearby service search failed: "}
      [] OTHER -> {}

\* once the run is over after a failure: every scheduled node ran and the
\* composer gave a non-empty final_answer
FailureStillAnswers ==
    (pc = "done" /\ failed # {}) =>
        /\ trace = NodeSequence(ctx.intent)
        /\ ~composer_out.raised
        /\ composer_out.value.final_answer # << >>

\* C2 as stated: if the internal step of intent_classifier, rag_retriever,
\* rag_generator or geo_reasoning fails, the node sets the context's error
\* field to a non-empty message, every node scheduled after it still runs and
\* response_composer produces a non-empty final_answer.
C2_FailureSetsNonEmptyError ==
    /\ (trace # << >> /\ Last(trace) \in failed) =>
           "error" \in DOMAIN ctx /\ ctx.error # << >>
    /\ FailureStillAnswers

\* C2, amended: after a failure of intent_classifier the error field is
\* present and holds the exception's text, which may be empty; after a
\* failure of rag_retriever, rag_generator or geo_reasoning it is that
\* node's prefix followed by the exception's text, hence non-empty; in both
\* cases every node scheduled after it still runs and response_composer
\* produces a non-empty final_answer.
C2_FailureSetsError ==
    /\ (trace # << >> /\ Last(trace) \in failed) =>
           /\ "error" \in DOMAIN ctx
           /\ Last(trace) # "intent_classifier" =>
                  /\ ctx.error # << >>
                  /\ Head(ctx.error) \in ErrorPrefixes(Last(trace))
    /\ FailureStillAnswers

C2_Witness ==
    /\ pc = "done"
    /\ failed = {"geo_reasoning"}
    /\ ctx.intent = "NAVIGATION"
    /\ Head(ctx.error) = "Navigation failed: "

\* the context has no retrieved document
NoDocuments(state) == Get(state, "retrieved_documents", << >>) = << >>

\* C4: in every run in which retrieval yields zero documents (an empty
\* result or a retrieval failure), rag_generator returns the fixed
\* insufficient-information answer with an empty source list and confidence
\* low, and makes no generation call.
C4_NoDocumentsNoGeneration ==
    (Ran("rag_generator") /\ NoDocuments(ctx)) =>
        /\ ctx.rag_answer =
               <<"I don't have enough verified ASTU information to answer this accurately.">>
        /\ ctx.rag_sources = << >>
        /\ ctx.rag_confidence = <<"low">>
        /\ gen_calls = 0

C4_Witness ==
    /\ pc = "done"
    /\ "rag_retriever" \in failed
    /\ Ran("rag_generator")
    /\ gen_calls = 0

\* the reply is an exception, is not JSON, or lacks a field of the
\* {answer, sources_used, confidence} schema or has a confidence outside it
UnusableReply(reply) ==
    \/ reply.raised
    \/ ~reply.value.json
    \/ ~({"answer", "sources_used", "confidence"} \subseteq DOMAIN reply.value.obj)
    \/ reply.value.obj.confidence \notin {"high", "medium", "low"}

\* the answer texts a reply carries
ReplyTexts(reply) ==
    IF reply.raised THEN {}
    ELSE IF ~reply.value.json THEN {}
    ELSE IF "answer" \notin DOMAIN reply.value.obj THEN {}
    ELSE {reply.value.obj.answer[i] : i \in 1..Len(reply.value.obj.answer)}

\* C5: when documents were retrieved but the generation call errors, its
\* output is not JSON, or the parsed object fails the schema, rag_answer is
\* the fixed answer with confidence low and no sources, and no part of the
\* model's output is in rag_answer or in final_answer.
C5_UnusableReplyGivesSentinel ==
    (Ran("rag_generator") /\ ~NoDocuments(ctx) /\ UnusableReply(gen_out)) =>
        /\ ctx.rag_answer =
               <<"I don't have enough verified ASTU information to answer this accurately.">>
        /\ ctx.rag_sources = << >>
        /\ ctx.rag_confidence = <<"low">>
        /\ \A i \in 1..Len(ctx.rag_answer) :
               ctx.rag_answer[i] \notin ReplyTexts(gen_out)
        /\ pc = "done" =>
               /\ ~composer_out.raised
               /\ \A i \in 1..Len(composer_out.value.final_answer) :
                      composer_out.value.final_answer[i] \notin ReplyTexts(gen_out)

C5_Witness ==
    /\ pc = "done"
    /\ Ran("rag_generator")
    /\ ~NoDocuments(ctx)
    /\ ~gen_out.raised
    /\ gen_out.value.json
    /\ gen_out.value.obj.answer = <<"Partial answer">>
    /\ gen_calls = 1

\* C6: in a UNIVERSITY_INFO run in which the knowledge base holds documents
\* matching the query and the generation step returns a schema-valid result,
\* the final answer is that generated answer and sources_used is its source
\* list, not the fixed insufficient-information answer.
C6_GroundedAnswerDelivered ==
    (/\ pc = "done"
     /\ ctx.intent = "UNIVERSITY_INFO"
     /\ kb_rows # << >>
     /\ ~UnusableReply(gen_out)) =>
        /\ ~composer_out.raised
        /\ composer_out.value.final_answer = gen_out.value.obj.answer
        /\ composer_out.value.sources_used = gen_out.value.obj.sources_used
        /\ composer_out.value.final_answer # RAG_NO_ANSWER.answer

C6_Witness ==
    /\ pc = "done"
    /\ ctx.intent = "UNIVERSITY_INFO"
    /\ failed = {"rag_retriever"}
    /\ kb_rows # << >>
    /\ ~UnusableReply(gen_out)
    /\ composer_out.value.final_answer = RAG_NO_ANSWER.answer

\* C7: for intent MIXED the final answer contains the knowledge pipeline's
\* answer text and the navigation summary, the knowledge text ending before
\* the navigation summary begins, and sources_used is the knowledge
\* pipeline's source list.
C7_MixedOrder ==
    (/\ pc = "done"
     /\ Get(composer_in, "intent", "UNIVERSITY_INFO") = "MIXED"
     /\ {"rag_answer", "rag_sources", "route_summary"} \subseteq DOMAIN composer_in) =>
        /\ ~composer_out.raised
        /\ \E i, j \in 1..Len(composer_out.value.final_answer) :
               /\ OccursAt(composer_out.value.final_answer,
                           composer_in.rag_answer, i)
               /\ OccursAt(composer_out.value.final_answer,
                           composer_in.route_summary, j)
               /\ i + Len(composer_in.rag_answer) <= j
        /\ composer_out.value.sources_used = composer_in.rag_sources

C7_Witness ==
    /\ pc = "done"
    /\ Ran("rag_generator")
    /\ Ran("geo_reasoning")
    /\ composer_in.intent = "MIXED"
    /\ composer_in.rag_answer = <<"Grounded answer">>
    /\ "route_coords" \in DOMAIN geo_out

\* C8: for each of the four intents and for an unrecognised intent,
\* response_composer returns a final_answer without raising, whichever of
\* the optional fields are absent from the context.
C8_ComposerNeverRaises ==
    Ran("response_composer") =>
        /\ ~composer_out.raised
        /\ "final_answer" \in DOMAIN composer_out.value

C8_Witness ==
    /\ trace = <<"response_composer">>
    /\ Get(composer_in, "intent", "UNIVERSITY_INFO") = "NEARBY_SERVICE"
    /\ "service_category" \notin DOMAIN composer_in
    /\ "rag_answer" \notin DOMAIN composer_in
    /\ Get(composer_in, "nearby_services", << >>) # << >>
    /\ ~composer_out.raised

\* the fields the knowledge pipeline writes, and those the geo pipeline writes
RagFields == {"rag_answer", "rag_sources"}
GeoFields == {"route_summary", "distance_estimate", "route_steps",
              "geo_reasoning", "nearby_services", "service_category",
              "start_coordinates", "end_coordinates"}

\* the fields written by the pipeline that does not match the intent
UnmatchedFields(intent) ==
    CASE intent = "UNIVERSITY_INFO" -> GeoFields
      [] intent \in {"NAVIGATION", "NEARBY_SERVICE"} -> RagFields
      [] OTHER -> {}

Without(state, keys) == [k \in DOMAIN state \ keys |-> state[k]]

\* C9: two final contexts with the same intent that differ only in fields
\* written by the pipeline that does not match the intent give the same
\* final_answer and the same sources_used: the composer's answer and sources
\* for a context are those for the context with the unmatched fields removed.
C9_UnmatchedFieldsIgnored ==
    (Ran("response_composer") /\ "intent" \in DOMAIN composer_in) =>
        LET base == response_composer_node(
                        Without(composer_in, UnmatchedFields(composer_in.intent)))
        IN  /\ ~composer_out.raised
            /\ ~base.raised
            /\ composer_out.value.final_answer = base.value.final_answer
            /\ composer_out.value.sources_used = base.value.sources_used

C9_Witness ==
    /\ trace = <<"response_composer">>
    /\ Get(composer_in, "intent", "UNIVERSITY_INFO") = "NEARBY_SERVICE"
    /\ "rag_answer" \in DOMAIN composer_in
    /\ "route_summary" \notin DOMAIN composer_in
    /\ "nearby_services" \notin DOMAIN composer_in
    /\ composer_out.value.final_answer = <<"No ", "services", " found nearby">>

\* what the caller receives: the final context of execute, or the data of
\* the answer event of stream_execute
Delivered ==
    IF exec_mode = "batch" THEN result
    ELSE LET answers == SelectSeq(events, LAMBDA e : e.type = "answer")
         IN  IF answers = << >> THEN << >> ELSE Last(answers).data

\* C10: for every intent, the start coordinates, end coordinates and route
\* polyline geo_reasoning produced are in the composer's output and in what
\* the caller receives (the final context in batch mode, the answer event in
\* streaming mode), unchanged; those never produced are null.
C10_GeodataPassedThrough ==
    (pc = "done" /\ ~composer_out.raised) =>
        \A k \in {"start_coordinates", "end_coordinates", "route_coords"} :
            /\ composer_out.value[k] = GetOrNone(geo_out, k)
            /\ GetOrNone(Delivered, k) = GetOrNone(geo_out, k)

C10_Witness ==
    /\ pc = "done"
    /\ "route_coords" \in DOMAIN geo_out
    /\ geo_out.route_coords # << >>
    /\ composer_out.value.route_coords = None
    /\ composer_out.value.start_coordinates = geo_out.start_coordinates
    /\ GetOrNone(Delivered, "route_coords") = None

-----------------------------------------------------------------------------
(* The routing engine *)

\* a navigation call that came back from get_route with a route
RouteFound == pc = "done" /\ eng.op = "navigate" /\ eng.route # None

\* ... with a route tagged as leading to an external destination
HybridFound == RouteFound /\ "external_destination" \in DOMAIN eng.route

\* C11 as stated: the total of a hybrid route is the in-graph distance plus
\* the external distance, both non-negative, and the reported campus and
\* external distances add up to the reported total
C11_SplitSumsToTotal ==
    HybridFound =>
        LET legs == HybridLegs(eng.osm.graph, PointOf(eng.start), PointOf(eng.end))
        IN  /\ legs.campus_distance >= 0
            /\ legs.external_distance >= 0
            /\ eng.route.distance_decimeters
                   = PyRound(legs.campus_distance + legs.external_distance, 10)
            /\ eng.route.campus_distance_decimeters
                   + eng.route.external_distance_decimeters
                   = eng.route.distance_decimeters

\* C11, amended: the total of a hybrid route is the in-graph distance plus
\* the external distance, both non-negative; each reported figure is its
\* value rounded to 0.1 m, so the reported campus and external distances add
\* up to the reported total to within 0.1 m
C11_SplitSumsToTotalRounded ==
    HybridFound =>
        LET legs == HybridLegs(eng.osm.graph, PointOf(eng.start), PointOf(eng.end))
        IN  /\ legs.campus_distance >= 0
            /\ legs.external_distance >= 0
            /\ eng.route.distance_decimeters
                   = PyRound(legs.campus_distance + legs.external_distance, 10)
            /\ eng.route.campus_distance_decimeters
                   = PyRound(legs.campus_distance, 10)
            /\ eng.route.external_distance_decimeters
                   = PyRound(legs.external_distance, 10)
            /\ Abs(eng.route.campus_distance_decimeters
                   + eng.route.external_distance_decimeters
                   - eng.route.distance_decimeters) <= 1

\* a hybrid route with both legs longer than nothing
C11_Witness ==
    /\ HybridFound
    /\ eng.route.campus_distance_decimeters > 0
    /\ eng.route.external_distance_decimeters > 0

\* the destination of the call lies more than 1000 m + 200 m from the centre
FarDestination ==
    geodesic(ASTU_CENTER, PointOf(eng.end)) > (1000 + 200) * 100

MaxMinutes == 120

\* the minutes a navigation result reports, read back from its summary
\* "Route from A to B: 0.42km, ~5 min walk"
ReportedMinutes(nav) ==
    CHOOSE t \in 0..MaxMinutes : ToString(t) = nav.route_summary[8]

\* the minutes _handle_navigation reports for the route of this call under
\* the given urgency
NavigationMinutes(urgency) ==
    ReportedMinutes(
        NavigationRoute([user_query |-> ctx.user_query, urgency |-> urgency],
                        << >>, eng.start, eng.end, << >>, eng.route))

\* the minutes find_route reports for the places of this call under the
\* given urgency
FindRouteMinutes(urgency) ==
    find_route(eng.start_name, eng.end_name, urgency).value.estimated_time_minutes

Navigated == pc = "done" /\ eng.op = "navigate"

RouteFoundByName == pc = "done" /\ eng.op = "find_route" /\ ~eng.found.raised

\* C13: for one route, whether found by the navigation handler or by
\* find_route, the reported duration under exam urgency is at most the one
\* under normal urgency, which is at most the one under accessibility urgency
C13_UrgencyOrder ==
    /\ Navigated =>
           /\ ReportedMinutes(eng.nav) = NavigationMinutes(eng.urgency)
           /\ NavigationMinutes("exam") <= NavigationMinutes("normal")
           /\ NavigationMinutes("normal") <= NavigationMinutes("accessibility")
    /\ RouteFoundByName =>
           /\ eng.found.value.estimated_time_minutes = FindRouteMinutes(eng.urgency)
           /\ FindRouteMinutes("exam") <= FindRouteMinutes("normal")
           /\ FindRouteMinutes("normal") <= FindRouteMinutes("accessibility")

\* a route walked under exam urgency whose three durations all differ
C13_Witness ==
    /\ Navigated
    /\ eng.urgency = "exam"
    /\ NavigationMinutes("exam") < NavigationMinutes("normal")
    /\ NavigationMinutes("normal") < NavigationMinutes("accessibility")

\* C14 as stated: on both paths that report a duration, the navigation
\* handler and find_route, the duration after the urgency multiplier is at
\* least 1 minute for every urgency and every distance, 0 included
C14_DurationAtLeastOneMinute ==
    /\ Navigated => ReportedMinutes(eng.nav) >= 1
    /\ RouteFoundByName => eng.found.value.estimated_time_minutes >= 1

\* find_route between a place and itself under exam urgency
C14_Witness ==
    /\ RouteFoundByName
    /\ eng.urgency = "exam"
    /\ eng.found.value.total_distance_centikm = 0

\* a navigation call whose start and end have the same coordinates
Coincident == Navigated /\ PointOf(eng.start) = PointOf(eng.end)

\* C15 as stated: for a start and an end with identical coordinates the
\* distance is 0 and the reported duration is 1 minute, wherever the point
\* lies and whether or not the graph is available
C15_CoincidentZeroOneMinute ==
    Coincident =>
        /\ eng.nav.distance_estimate = <<"0.00", "km">>
        /\ ReportedMinutes(eng.nav) = 1

\* a coincident pair outside the covered region with the graph available
C15_Witness ==
    Coincident /\ FarDestination /\ eng.route # None

\* the graph is loaded and has no path for the request: to the exit for a
\* far destination, between the nearest nodes otherwise
RoutingStepFails ==
    /\ eng.osm # None
    /\ eng.osm.graph # None
    /\ LET graph == eng.osm.graph
           from == nearest_nodes(graph, eng.start.longitude, eng.start.latitude)
           to == nearest_nodes(graph, eng.end.longitude, eng.end.latitude)
       IN  IF FarDestination
           THEN \A n \in BestExit(graph, PointOf(eng.end)) :
                    SimplePaths(graph, from, n, {}) = {}
           ELSE SimplePaths(graph, from, to, {}) = {}

\* C16: get_route hands back "no route" instead of raising when no OSM
\* service was injected, when the graph cannot be loaded and when a routing
\* step fails, and the navigation handler then answers with a straight-line
\* estimate (great-circle distance, compass direction of the bearing, a
\* polyline of the two end points) and sets no error
C16_NoRouteStraightLine ==
    Navigated =>
        /\ (eng.osm = None \/ eng.osm.graph = None \/ RoutingStepFails)
               => eng.route = None
        /\ eng.route = None =>
               LET line_m == haversine_distance(
                                 eng.start.latitude, eng.start.longitude,
                                 eng.end.latitude, eng.end.longitude)
                   direction == Direction(
                                    eng.start.latitude, eng.start.longitude,
                                    eng.end.latitude, eng.end.longitude)
               IN  /\ "error" \notin DOMAIN eng.nav
                   /\ eng.nav.distance_estimate
                          = <<Fmt2(RoundDiv(line_m, 10)), "km">>
                   /\ \E i \in 1..Len(eng.nav.route_steps) :
                          \E j \in 1..Len(eng.nav.route_steps[i]) :
                              eng.nav.route_steps[i][j] = direction
                   /\ eng.nav.route_coords = <<PointOf(eng.start), PointOf(eng.end)>>
                   /\ eng.nav.geo_reasoning[4]
                          = <<"Route type: ", "straight line estimate">>

\* a loaded graph without a path for the request, answered by a straight line
C16_Witness ==
    /\ Navigated
    /\ RoutingStepFails
    /\ eng.start # eng.end
    /\ eng.nav.geo_reasoning[4] = <<"Route type: ", "straight line estimate">>

-----------------------------------------------------------------------------
(* POI resolution *)

\* the lower-cased words of a POI's name and category
PoiWords(p) ==
    {p.category}
    \cup (CASE p.name = "Library" -> {"library"}
            [] p.name = "Computer Lab" -> {"computer", "lab"}
            [] p.name = "Block 8" -> {"block", "8"}
            [] OTHER -> {})

\* the rows a lexical match of the query on name and category selects
LexicalRows(query, limit) ==
    Take(ById({p \in PoiTable :
                  \E i \in 1..Len(query) : query[i] \in PoiWords(p)}), limit)

SearchDone == pc = "done" /\ eng.op = "search_pois"

\* C19 as stated: search_pois answers with the rows of the first tier that
\* has any, in the order embedding similarity, category keywords, lexical
\* match on name and category, and never with rows of two tiers
C19_FirstTierWins ==
    SearchDone =>
        LET tier1 == IF eng.embedding.raised THEN << >> ELSE eng.semantic
            tier2 == Take(CategoryTier(eng.query, eng.limit), eng.limit)
            tier3 == LexicalRows(eng.query, eng.limit)
        IN  /\ ~eng.found.raised
            /\ eng.found.value = IF tier1 # << >> THEN tier1
                                 ELSE IF tier2 # << >> THEN tier2
                                 ELSE tier3

\* a search whose embedding was computed and whose similarity query has rows
C19_Witness ==
    /\ SearchDone
    /\ ~eng.embedding.raised
    /\ eng.semantic # << >>

Resolved == pc = "done" /\ eng.op = "resolve"

\* C17 as stated: when the similarity search has an entity for both names of
\* a 'from X to Y' query, the start and end names of the route (in
\* start_coordinates, end_coordinates and the summary) are those entities'
\* names
C17_NamesOfResolvedEntities ==
    (Resolved /\ ~eng.embedding.raised
        /\ eng.semantic1 # << >> /\ eng.semantic2 # << >>) =>
        /\ "start_coordinates" \in DOMAIN eng.nav
        /\ eng.nav.start_coordinates.name = eng.semantic1[1].name
        /\ eng.nav.end_coordinates.name = eng.semantic2[1].name
        /\ eng.nav.route_summary[2] = eng.semantic1[1].name
        /\ eng.nav.route_summary[4] = eng.semantic2[1].name

\* 'from block 8 to library' with both places found by similarity
C17_Witness ==
    /\ Resolved
    /\ ~eng.embedding.raised
    /\ eng.query = "from block 8 to library"
    /\ eng.semantic1 # << >> /\ eng.semantic1[1].name = "Block 8"
    /\ eng.semantic2 # << >> /\ eng.semantic2[1].name = "Library"

-----------------------------------------------------------------------------
(* Destination-only requests and the event stream *)

\* geo_reasoning produced a route for 'where is block 8?' sent without
\* coordinates (user_input then put the default reference point in)
DestinationOnlyRouted ==
    /\ geo_out # None
    /\ "start_coordinates" \in DOMAIN geo_out
    /\ ctx.user_query = "where is block 8?"
    /\ ctx.latitude = DefaultLat
    /\ ctx.longitude = DefaultLon

\* C18 as stated: for a destination-only query sent without coordinates the
\* start of the route is the virtual current location at the default
\* reference coordinates, not a real POI, and the reported confidence is not
\* the one reported for a start that is a real POI ("high")
C18_VirtualStartLowersConfidence ==
    DestinationOnlyRouted =>
        /\ geo_out.start_coordinates
               = [lat |-> DefaultLat, lon |-> DefaultLon,
                  name |-> "Your Current Location"]
        /\ geo_out.geo_confidence # <<"high">>

\* such a request routed from the virtual current location
C18_Witness ==
    /\ DestinationOnlyRouted
    /\ geo_out.start_coordinates.name = "Your Current Location"

\* the place of a node in the trace
PlaceInTrace(node) == CHOOSE i \in 1..Len(trace) : trace[i] = node

\* C20: in incremental mode every node that has executed has at least one
\* event naming it, of type reasoning, answer or error, and the events of a
\* node come before those of every node that ran after it
C20_EventsFollowNodes ==
    exec_mode = "stream" =>
        /\ \A i \in 1..Len(trace) :
               \E j \in 1..Len(events) :
                   /\ events[j].node = trace[i]
                   /\ events[j].type \in {"reasoning", "answer", "error"}
        /\ \A j \in 1..Len(events) :
               /\ \E i \in 1..Len(trace) : trace[i] = events[j].node
               /\ \A k \in j..Len(events) :
                      PlaceInTrace(events[j].node) <= PlaceInTrace(events[k].node)

\* a finished incremental run of five nodes, one of which failed
C20_Witness ==
    /\ exec_mode = "stream"
    /\ pc = "done"
    /\ Len(trace) >= 5
    /\ failed # {}
    /\ \E j \in 1..Len(events) : events[j].type = "error"

-----------------------------------------------------------------------------
(* The orchestrator boundary and the endpoints *)

\* execute has returned after the graph run raised
BatchRunRaised ==
    exec_mode = "batch" /\ pc = "done" /\ "workflow" \in failed

SseCount(t) == Cardinality({i \in 1..Len(sse) : sse[i].type = t})

StreamEnded == exec_mode = "stream" /\ pc = "done"

\* the except block of stream_execute ran
WorkflowRaised == \E i \in 1..Len(events) : events[i].node = "workflow"

\* C22: in a streaming query whose caller stays connected, a done message
\* is the last message and the only done message once the run has ended,
\* also when the graph run raised; at most one answer message is written,
\* and exactly one, for response_composer and before done, when the run
\* ended without an exception at the orchestrator
C22_StreamEndsWithOneDone ==
    /\ \A i \in 1..Len(sse) : sse[i].type = "done" => i = Len(sse)
    /\ StreamEnded => (sse # << >> /\ Last(sse).type = "done")
    /\ SseCount("answer") <= 1
    /\ \A i \in 1..Len(events) :
          events[i].type = "answer" => events[i].node = "response_composer"
    /\ (StreamEnded /\ ~WorkflowRaised) =>
          \E i \in 1..(Len(sse) - 1) : sse[i].type = "answer"

C22_Witness ==
    /\ StreamEnded /\ WorkflowRaised
    /\ Len(sse) >= 3
    /\ sse[Len(sse) - 1].type = "error"
    /\ Last(sse).type = "done"

\* the caller went away after at least one message had been written
DisconnectedAfterEvent == pc = "cancelled" /\ sse # << >>

\* C26: when the caller of a streaming request disconnects, the step that
\* cancels the request writes no message, and no message is written
\* afterwards
C26_NoEventAfterDisconnect ==
    [][(pc' = "cancelled" \/ pc = "cancelled") => sse' = sse]_vars

C26_Witness == DisconnectedAfterEvent /\ Len(trace) >= 3

\* a request to the route endpoint, whose service is the injected one
RouteRequested == Navigated /\ eng.osm # None

\* C23: the route endpoint answers a well-formed request with a route
\* (status 200) or with not-found (status 404), and with 404 whenever the
\* engine yields no route
C23_NoRouteIsNotFound ==
    RouteRequested =>
        LET response == calculate_osm_route(eng.osm.graph, PointOf(eng.start),
                                            PointOf(eng.end))
        IN  /\ response.status \in {200, 404}
            /\ eng.route = None => response.status = 404

C23_Witness ==
    /\ RouteRequested
    /\ eng.route = None
    /\ RouteResponse(eng.route) =
           [status |-> 500, detail |-> <<"404", ": ", "Route not found">>]

-----------------------------------------------------------------------------
(* The reasoning trace *)

\* the reasoning trace of a context
ReasoningOf(state) == Get(state, "reasoning_stream", << >>)

\* the lists carried by the reasoning events yielded so far, in order
ReasoningEventsExtend ==
    \A i, j \in 1..Len(events) :
        (i < j /\ events[i].type = "reasoning" /\ events[j].type = "reasoning")
            => IsPrefix(events[i].data, events[j].data)

\* C24: every step of a run, a failing node included, leaves the reasoning
\* trace of the context with its previous value as a prefix, and every
\* reasoning event of a streaming run carries an extension of the list of
\* each reasoning event before it
C24_ReasoningAppendOnly ==
    /\ [][IsPrefix(ReasoningOf(ctx), ReasoningOf(ctx'))]_vars
    /\ []ReasoningEventsExtend

C24_Witness ==
    /\ pc = "done"
    /\ exec_mode = "stream"
    /\ failed # {}
    /\ Len(ReasoningOf(ctx)) >= 3
    /\ Cardinality({i \in 1..Len(events) : events[i].type = "reasoning"}) >= 3

-----------------------------------------------------------------------------
(* The walking-network graph over the process lifetime *)

\* C25: over the process lifetime the walking-network graph is downloaded at
\* most once, whatever the order of startup and route requests
C25_GraphLoadedAtMostOnce == proc # None => proc.loads <= 1

\* the preload succeeded and the first request through the global container
\* downloaded the graph again
C25_Witness ==
    /\ proc # None
    /\ proc.loads = 2
    /\ Len(proc.services) = 2
    /\ proc.services[1].owner = "lifespan"
    /\ proc.services[1].campus_graph_loaded
    /\ proc.container_osm = 2
    /\ proc.services[2].graph = 2

-----------------------------------------------------------------------------
(* The in-region route *)

\* a route was found for a destination inside the region
InRegionRouteFound == RouteFound /\ ~HybridFound

\* the least cumulative edge length over all paths between the nodes nearest
\* the two points of the call, in centimetres
LeastPathLength ==
    LET graph == eng.osm.graph
        a == nearest_nodes(graph, eng.start.longitude, eng.start.latitude)
        b == nearest_nodes(graph, eng.end.longitude, eng.end.latitude)
        weights == {PathWeight(graph, p) : p \in SimplePaths(graph, a, b, {})}
    IN  CHOOSE w \in weights : \A x \in weights : w <= x

\* C27: the distance reported for an in-region route is the least cumulative
\* edge length over all paths between the two nearest nodes, also on a graph
\* with parallel edges, and the polyline is the positions of a path between
\* these nodes
C27_ReportedDistanceIsMinimal ==
    InRegionRouteFound =>
        LET graph == eng.osm.graph
            a == nearest_nodes(graph, eng.start.longitude, eng.start.latitude)
            b == nearest_nodes(graph, eng.end.longitude, eng.end.latitude)
        IN  /\ eng.route.distance_decimeters = PyRound(LeastPathLength, 10)
            /\ \E p \in SimplePaths(graph, a, b, {}) :
                  /\ PathWeight(graph, p) = LeastPathLength
                  /\ eng.route.route_coords = RouteCoords(graph, p)

\* a route over the pair of nodes that has two edges
C27_Witness ==
    /\ InRegionRouteFound
    /\ eng.osm.graph.edges = ParallelEdges
    /\ eng.start.name = "Library"
    /\ eng.route.nodes_count >= 2
    /\ eng.route.distance_decimeters # PyRound(LeastPathLength, 10)

-----------------------------------------------------------------------------
(* The exit of a route to an out-of-region destination *)

\* the nodes of the loaded graph farther than 85% of the radius from the centre
BoundaryRing ==
    {n \in DOMAIN eng.osm.graph.nodes :
        100 * geodesic(ASTU_CENTER, eng.osm.graph.nodes[n])
            > 85 * CAMPUS_RADIUS * 100}

\* a finished call for an out-of-region destination on a loaded graph
FarRouteRequested ==
    /\ Navigated
    /\ eng.osm # None
    /\ eng.osm.graph # None
    /\ FarDestination

\* C28: the in-graph leg of a route to an out-of-region destination ends at a
\* node of the boundary ring to which no other ring node is strictly closer
\* to the destination, and no route is produced when the ring is empty
C28_ExitIsNearestBoundaryNode ==
    FarRouteRequested =>
        /\ BoundaryRing = {} => eng.route = None
        /\ eng.route # None =>
              LET coords == eng.route.route_coords
                  exit == coords[Len(coords) - 1]
                  end == PointOf(eng.end)
              IN  /\ \E n \in BoundaryRing : eng.osm.graph.nodes[n] = exit
                  /\ \A m \in BoundaryRing :
                        geodesic(exit, end)
                            <= geodesic(eng.osm.graph.nodes[m], end)

\* a route that leaves through one of two ring nodes, the other being farther
\* from the destination
C28_Witness ==
    /\ FarRouteRequested
    /\ eng.route # None
    /\ Cardinality(BoundaryRing) = 2
    /\ \E m \in BoundaryRing :
          geodesic(eng.route.route_coords[Len(eng.route.route_coords) - 1],
                   PointOf(eng.end))
              < geodesic(eng.osm.graph.nodes[m], PointOf(eng.end))

-----------------------------------------------------------------------------
(* The three text shapes of location extraction *)

Extracted == pc = "done" /\ eng.op = "extract"

\* the query has a "from", a name, a "to" and a name, in this order
HasFromTo(words) ==
    \E i, j \in 1..Len(words) :
        words[i] = "from" /\ words[j] = "to" /\ i + 1 < j /\ j < Len(words)

\* the query has a trigger of the second shape followed by a name
HasVerb(words) ==
    \E k \in 1..(Len(words) - 1) :
        \/ words[k] \in {"to", "find", "locate"}
        \/ (words[k] = "where" /\ words[k + 1] = "is" /\ k + 1 < Len(words))

\* what the search for a name gave: its top row, or None
TopOrNone(name) == First(TopResult(name, eng.down))

\* C29: a query of the form 'from X to Y' is handled by the from-to shape
\* alone, X and Y each searched on its own and the top row of each taken,
\* also when one of them is not found; the verb-prefixed shape handles a
\* query only when the from-to shape does not match it, and the whole text
\* is searched only when neither shape matches
C29_ShapesInFixedPriority ==
    Extracted =>
        /\ HasFromTo(eng.words) =>
              /\ eng.plan.shape = "from_to"
              /\ Len(eng.plan.names) = 2
              /\ eng.found = Returned(<<TopOrNone(eng.plan.names[1]),
                                        TopOrNone(eng.plan.names[2])>>)
        /\ eng.plan.shape = "to" =>
              (~HasFromTo(eng.words) /\ HasVerb(eng.words))
        /\ eng.plan.shape = "bare" =>
              /\ ~HasFromTo(eng.words) /\ ~HasVerb(eng.words)
              /\ eng.plan.names = <<eng.words>>

\* a from-to query with a verb before its "from", whose start is not found
C29_Witness ==
    /\ Extracted
    /\ eng.words = <<"find", "the", "way", "from", "lab", "to", "library">>
    /\ eng.down = {2}
    /\ eng.plan.names = <<<<"lab">>, <<"library">>>>
    /\ eng.found.value[1] = None
    /\ eng.found.value[2] # None

-----------------------------------------------------------------------------
(* The nearby lookup and its numbered list *)

NearbyDone == pc = "done" /\ eng.op = "nearby"

\* line occurs in text
HasLine(text, line) ==
    \E k \in 0..(Len(text) - Len(line)) :
        SubSeq(text, k + 1, k + Len(line)) = line

\* C30: every service the nearby lookup returns lies within the requested
\* radius of the caller, the list is in non-decreasing order of distance, and
\* the composer's text numbers its first five services in that order, each
\* with its name and distance
C30_NearbyWithinRadiusNearestFirst ==
    NearbyDone =>
        LET services == eng.found.value
        IN  /\ \A i \in 1..Len(services) :
                  haversine_distance(eng.latitude, eng.longitude,
                                     services[i].latitude,
                                     services[i].longitude)
                      <= eng.radius_km * 1000
            /\ \A i \in 1..(Len(services) - 1) :
                  services[i].distance_km <= services[i + 1].distance_km
            /\ \A i \in 1..Len(services) :
                  i <= 5 =>
                      HasLine(eng.answer.value,
                              <<ToString(i), ". **", services[i].name, "** - ",
                                FloatStr(services[i].distance_km), "km away">>)

\* two services returned, found in the other order, and a row left out
C30_Witness ==
    /\ NearbyDone
    /\ Len(eng.pois) = 3
    /\ Len(eng.found.value) = 2
    /\ eng.found.value[1].id = eng.pois[3].id
    /\ eng.found.value[2].id = eng.pois[1].id
    /\ eng.found.value[1].distance_km < eng.found.value[2].distance_km

====
